---------------------------- MODULE Spec2Model ----------------------------
(***************************************************************************)
(* Numerical analysis engine of melpher: the root scanner (findRoots), the *)
(* extremum scanner (findExtrema, refine) of components/Graph.tsx and the  *)
(* equation solver (solveEquation, newtonMethod) of the equation view.     *)
(*                                                                         *)
(* Numbers.  A JavaScript number is modelled as a fixed-point value: an    *)
(* integer count of grid steps, Unit steps per 1.0, or one of the          *)
(* non-finite values NaN, +Infinity, -Infinity.  An evaluation may also    *)
(* throw.  The midpoint (a+b)/2 and the Newton quotient are rounded to the *)
(* grid, as a double rounds to its 53 bits.  The tolerances of the source  *)
(* (1e-12 < 1e-8 < 1e-6) do not fit the grid next to the values 0.1 .. 100 *)
(* the program works on, so each is given in grid steps with the order of  *)
(* the source kept: tol < newtonH = dedupTol < finalTol.                   *)
(*                                                                         *)
(* The expression evaluator (mathjs) is external: a compiled handle is a   *)
(* record naming a function of the grid, and evaluate gives its value.     *)
(***************************************************************************)
EXTENDS Integers, Sequences, FiniteSets, TLC

\* ------------------------------------------------------------ bounds
Unit == 25000          \* grid steps per 1.0
MaxFormat == 220       \* roots -MaxFormat/200 .. MaxFormat/200 are formatted
MaxWidth == 10         \* the canvas is MaxWidth - 1 or MaxWidth pixels wide
MaxShift == 2          \* handles are shifted by 0 .. MaxShift quarter-samples
MaxFunctions == 2      \* the list holds up to MaxFunctions entries
MaxPastes == 1         \* an entry is shifted by up to MaxPastes pastes
MaxPinned == 1         \* up to MaxPinned tangents are pinned
MaxDrag == 1           \* drags keep dx, dy, cx and cy within MaxDrag units

\* ------------------------------------------------- program constants
samples == 500         \* scan intervals (501 sample points)
hFactor == 1000        \* findExtrema: h = dx * 0.001
bisections == 50       \* bisection steps per bracket
zeroTol == 2           \* findRoots: |y| < 1e-12
dedupTol == 8          \* |r - root| < 1e-8
maxIter == 100         \* newtonMethod: maxIter
tol == 2               \* newtonMethod: tol = 1e-12
newtonH == 8           \* newtonMethod: h = 1e-8
finalTol == 50         \* newtonMethod: final check 1e-6
fmtZeroTol == 4        \* solveEquation: |r| < 1e-10 is shown as "0"
maxDenom == 1000       \* toFraction: maxDenom
pxStep == 2            \* integral curve: step = 2 pixels

\* ------------------------------------------------------------ values
Num(n) == <<"num", n>>
NaN == <<"nan", 0>>
PosInf == <<"inf", 1>>
NegInf == <<"inf", -1>>
Throw == <<"throw", 0>>
Null == <<"null", 0>>

\* A test that lets NaN through, as a bare Number.isFinite would not.
isFiniteOrNaN(v) == v[1] \in {"num", "nan"}

isFinite(v) == v[1] = "num"

Abs(n) == IF n < 0 THEN -n ELSE n
Sign(n) == IF n < 0 THEN -1 ELSE IF n > 0 THEN 1 ELSE 0

\* The sign of a float product is the product of the signs.
ProductNegative(a, b) == Sign(a) * Sign(b) < 0

\* A midpoint rounded up past the grid value above it.
midRoundedUp(a, b) == (a + b) \div 2 + 1

\* (a + b) / 2 rounded to the grid.
Mid(a, b) == (a + b) \div 2

\* a / b rounded to the nearest grid value, b # 0.
RoundDiv(a, b) ==
  Sign(a) * Sign(b) * ((Abs(a) + Abs(b) \div 2) \div Abs(b))

\* x^2 / d on the grid, computed without leaving the integer range.
SqFix(x, d) ==
  LET q == x \div d
      r == x % d
  IN  q * q * d + 2 * q * r + (r * r) \div d

\* --------------------------------------------------- compiled handles
\* kind, and the parameters c (offset), p (size), g (place of a gap).
Handle(kind, c, p, g) == [kind |-> kind, c |-> c, p |-> p, g |-> g]

Shifts == {s * (Unit \div 100) : s \in 0..MaxShift}

ScanHandles ==
  {Handle("lin", c, 1, 0) : c \in Shifts \cup {1}}
  \cup {Handle("sq", 0, 32, 0),
        Handle("sq", SqFix(2 * Unit, 32), 32, 0),
        Handle("sq", SqFix(2 * Unit + 300, 32), 32, 0),
        Handle("hill", SqFix(2 * Unit + 300, 32), 32, 0)}
  \cup {Handle("step", c, Unit \div 2, 0) : c \in Shifts}
  \cup {Handle("pole", c, 1000000000, 0) : c \in Shifts}
  \cup {Handle("half", c, 1, 0) : c \in Shifts}
  \cup {Handle("sqgap", SqFix(2 * Unit + 300, 32), 32, -(2 * Unit + 600)),
        Handle("sqgap", SqFix(2 * Unit, 32) + 1, 32, -(2 * Unit + 600)),
        Handle("nan", 0, 0, 0),
        Handle("throws", 0, 0, 0)}

\* compiled.evaluate({ x }): a finite number, a non-finite value or Throw.
evaluate(f, x) ==
  CASE f.kind = "lin"    -> Num(x - f.c)                      \* x - c
    [] f.kind = "sq"     -> Num(SqFix(x, f.p) - f.c)           \* x^2 - c
    [] f.kind = "step"   -> IF x < f.c THEN Num(-f.p) ELSE Num(f.p)
                                                              \* floor(x-c) + 0.5
    [] f.kind = "pole"   -> IF x = f.c THEN PosInf
                            ELSE Num(f.p \div (x - f.c))       \* 1 / (x - c)
    [] f.kind = "half"   -> IF x < 0 THEN NaN ELSE Num(x - f.c)
                                                              \* sqrt(x)^2 - c
    [] f.kind = "neghalf" -> IF x > 0 THEN NaN ELSE Num(-x - f.c)
                                                              \* sqrt(-x)^2 - c
    [] f.kind = "sqgap"  -> IF Abs(x - f.g) < 150 THEN Throw
                            ELSE Num(SqFix(x, f.p) - f.c)
                                               \* x^2 - c, throwing near x = g
    [] f.kind = "ceil"   -> IF x <= f.c THEN Num(f.p) ELSE Num(f.p + f.g)
                                                              \* g*ceil(x-c) + p
    [] f.kind = "abs"    -> Num(Abs(x) + f.c)                  \* |x| + c
    [] f.kind = "hill"   -> Num(f.c - SqFix(x, f.p))           \* c - x^2
    [] f.kind = "nan"    -> NaN                                \* sqrt(-1 - x^2)
    [] f.kind = "throws" -> Throw                              \* undefined symbol


\* The expressions given to solveEquation: f = (lhs) - (rhs) compiled, or
\* text that mathjs cannot compile.
EqHandles ==
  {Handle("lin", c, 1, 0) : c \in {0, 1, 2 * Unit, -3 * Unit, Unit \div 4,
                                   -(Unit \div 2), Unit + 7}}
  \cup {Handle("sq", SqFix(2 * Unit, 40000), 40000, 0),
        Handle("sq", -SqFix(Unit, 40000), 40000, 0),
        Handle("half", 2 * Unit, 1, 0),
        Handle("neghalf", Unit, 1, 0),
        Handle("ceil", Unit, 100, 1000000),
        Handle("abs", 10, 0, 0),
        Handle("abs", Unit, 0, 0),
        Handle("nan", 0, 0, 0),
        Handle("throws", 0, 0, 0)}

Intervals ==
  {<<-10 * Unit, 10 * Unit>>,
   <<-10 * Unit + 400, 10 * Unit + 400>>,
   <<10 * Unit, -10 * Unit>>,
   <<0, 0>>,
   <<2 * Unit, 2 * Unit>>,
   <<-(samples \div 2), samples \div 2>>}

\* -------------------------------------------------------------- state
VARIABLES
  op,         \* the operation in progress or last returned
  pc,         \* "idle", "loop" (inside the operation's for loop) or "done"
  compiled,   \* the compiled handle
  xMin, xMax, \* the scan interval
  i,          \* loop index (sample index, or index into startPoints)
  prevY,      \* findRoots: previous sample value or Null
  prevDeriv,  \* findExtrema: previous derivative estimate or Null
  roots,      \* findRoots / solveEquation: the roots collected so far
  extrema,    \* findExtrema: the extrema collected so far
  visited,    \* number of loop bodies executed by the operation
  newtonX,    \* newtonMethod: the current iterate x
  newtonI,    \* newtonMethod: loop passes completed
  ret,        \* solveEquation: what the last newtonMethod call returned
  solution,   \* solveEquation: roots and error of the Solution returned
  equation,   \* solveEquation: the text given (Solution.input)
  variable,   \* solveEquation: the variable bound (Solution.variable)
  lhs, rhs,   \* solveEquation: the two sides of the text
  fExpr,      \* solveEquation: the text handed to math.compile
  view,       \* draw: the view [w, scale, cx]
  fn,         \* draw: the function entry [dx, domainMin, domainMax, ...]
  integralVals, \* draw: the accumulated value or Null of every sample
  acc,        \* draw: the running trapezoid sum
  functions,  \* Graph: the function entries [expr, dx, dy, showIntegral]
  selectedIndex, \* Graph: index of the selected entry or NoIndex (null)
  clipboard,  \* Graph: clipboardRef.current, an entry or NoClipboard (null)
  editingIndex, \* Graph: index of the entry being edited or NoIndex (null)
  editingExpr, \* Graph: the text in the edit box
  magnetMode, \* Graph: magnet on
  tangentMode, \* Graph: tangent mode on
  tangentInfo, \* Graph: tangentInfoRef.current, the live tangent or NoTangent
  pinnedTangents, \* Graph: the pinned tangents
  dragRef     \* Graph: dragRef.current [dragging, mode, graphIndex]

textVars == <<equation, variable, lhs, rhs, fExpr>>

integralVars == <<view, fn, integralVals, acc>>

listVars == <<functions, selectedIndex, clipboard, editingIndex, editingExpr>>

tangentVars == <<magnetMode, tangentMode, tangentInfo, pinnedTangents, dragRef>>

graphVars == <<listVars, tangentVars>>

\* Everything but the Graph's own state and its view.
engineVars == <<op, pc, compiled, xMin, xMax, i, prevY, prevDeriv, roots,
                extrema, visited, newtonX, newtonI, ret, solution, textVars,
                fn, integralVals, acc>>

vars == <<op, pc, compiled, xMin, xMax, i, prevY, prevDeriv, roots, extrema,
          visited, newtonX, newtonI, ret, solution, textVars, integralVars,
          graphVars>>

\* null as an index, as the clipboard and as the live tangent.
NoIndex == -1
NoClipboard == [expr |-> <<>>, dx |-> 0, dy |-> 0, showIntegral |-> FALSE]
NoTangent == [fnIndex |-> NoIndex, wx |-> 0, wy |-> 0, slope |-> 0]
NoDrag == [dragging |-> FALSE, mode |-> "pan", graphIndex |-> -1]

\* The state of a Graph just mounted.
InitGraph ==
  /\ functions = <<>>
  /\ selectedIndex = NoIndex
  /\ clipboard = NoClipboard
  /\ editingIndex = NoIndex
  /\ editingExpr = <<>>
  /\ magnetMode = FALSE
  /\ tangentMode = FALSE
  /\ tangentInfo = NoTangent
  /\ pinnedTangents = <<>>
  /\ dragRef = NoDrag

NoView == [w |-> 0, scale |-> 1, cx |-> 0]
NoEntry == [dx |-> 0, domainMin |-> Null, domainMax |-> Null,
            domainMinOpen |-> FALSE, domainMaxOpen |-> FALSE]

\* No integral curve is being built.
noIntegral ==
  /\ view' = NoView
  /\ fn' = NoEntry
  /\ integralVals' = <<>>
  /\ acc' = 0

\* No text is being solved.
noText ==
  /\ equation' = <<>>
  /\ variable' = <<>>
  /\ lhs' = <<>>
  /\ rhs' = <<>>
  /\ fExpr' = <<>>

NoRet == [r |-> Null, exit |-> "none", x0 |-> 0, iters |-> 0]
NoSolution == [roots |-> <<>>, error |-> "pending"]

Init ==
  /\ op = "none"
  /\ pc = "idle"
  /\ compiled = Handle("nan", 0, 0, 0)
  /\ xMin = 0
  /\ xMax = 0
  /\ i = 0
  /\ prevY = Null
  /\ prevDeriv = Null
  /\ roots = <<>>
  /\ extrema = <<>>
  /\ visited = 0
  /\ newtonX = 0
  /\ newtonI = 0
  /\ ret = NoRet
  /\ solution = NoSolution
  /\ equation = <<>>
  /\ variable = <<>>
  /\ lhs = <<>>
  /\ rhs = <<>>
  /\ fExpr = <<>>
  /\ view = NoView
  /\ fn = NoEntry
  /\ integralVals = <<>>
  /\ acc = 0
  /\ InitGraph

\* ---------------------------------------------------------- findRoots
sampleDx(a, b) == (b - a) \div samples

\* roots.some((r) => Math.abs(r - root) < 1e-8)
isDuplicate(rs, root) == \E k \in 1..Len(rs) : Abs(rs[k] - root) < dedupTol

\* roots.unshift(root): the root goes to the front.
unshift(rs, root) == <<root>> \o rs

\* roots.push(root)
push(rs, root) == Append(rs, root)

\* One pass of the inner bisection loop on [a, b]: <<"throw">> when an
\* evaluation throws, <<"break">> when one is non-finite, else
\* <<"next", a, b>> with the interval for the next pass.
bisectStep(f, a, b) ==
  LET mid == Mid(a, b)
      fm == evaluate(f, mid)
  IN  IF fm = Throw THEN <<"throw">>
      ELSE IF ~isFinite(fm) THEN <<"break">>
      ELSE
        LET fa == evaluate(f, a)
        IN  IF fa = Throw THEN <<"throw">>
            ELSE IF ~isFinite(fa) THEN <<"break">>
            ELSE IF ProductNegative(fa[2], fm[2])
                 THEN <<"next", a, mid>>
                 ELSE <<"next", mid, b>>

\* Sequencing of a computation: next applied to the value of first, which
\* is computed once.
andThen(first, next(_)) == CHOOSE r \in {next(v) : v \in {first}} : TRUE

\* The passes lo .. hi - 1 of the inner bisection loop from the state st:
\* <<"next", a, b>> while the loop goes on, <<"break", a, b>> once it has
\* been left, <<"throw">> once an evaluation has thrown. The passes of the
\* lower half come first.
RECURSIVE bisectRun(_, _, _, _)
bisectRun(f, st, lo, hi) ==
  IF st[1] # "next" THEN st
  ELSE IF hi - lo = 1
  THEN LET n == bisectStep(f, st[2], st[3])
       IN  IF n[1] = "break" THEN <<"break", st[2], st[3]>> ELSE n
  ELSE andThen(bisectRun(f, st, lo, (lo + hi) \div 2),
               LAMBDA half : bisectRun(f, half, (lo + hi) \div 2, hi))

\* The inner bisection loop from pass j on and the midpoint taken after it:
\* Num(root), or Throw when an evaluation inside the loop throws.
bisect(f, a, b, j) ==
  IF j = bisections THEN Num(Mid(a, b))
  ELSE andThen(bisectRun(f, <<"next", a, b>>, j, bisections),
               LAMBDA end : IF end[1] = "throw" THEN Throw
                            ELSE Num(Mid(end[2], end[3])))

\* The number of passes of the inner bisection loop begun for [a, b].
RECURSIVE bisectPasses(_, _, _, _)
bisectPasses(f, a, b, j) ==
  IF j = bisections THEN 0
  ELSE
    LET n == bisectStep(f, a, b)
    IN  IF n[1] = "next" THEN 1 + bisectPasses(f, n[2], n[3], j + 1) ELSE 1

\* A failure handler that leaves the loop instead of going on.
afterFailureBreak(k, py, rs) ==
  [i |-> samples + 1, prevY |-> Null, roots |-> rs]

\* A failure handler that tries the same sample again.
afterFailureRetry(k, py, rs) == [i |-> k, prevY |-> Null, roots |-> rs]

\* A failure handler that keeps the previous value.
keepPrevious(k, py, rs) == [i |-> k + 1, prevY |-> py, roots |-> rs]

\* prevY = null whatever it was, and the loop goes on with the next sample
\* (continue, or the end of the catch block).
afterFailure(k, py, rs) == [i |-> k + 1, prevY |-> Null, roots |-> rs]

\* One pass of the for loop of findRoots at sample k: the next loop index,
\* previous value and roots.
findRootsBody(f, a, b, k, py, rs) ==
  LET dx == sampleDx(a, b)
      x == a + k * dx
      y == evaluate(f, x)
  IN  IF y = Throw \/ ~isFinite(y)
      THEN afterFailure(k, py, rs)
      ELSE
        LET br == IF py # Null /\ ProductNegative(py[2], y[2])
                  THEN bisect(f, x - dx, x, 0)
                  ELSE Null
        IN  IF br = Throw
            THEN afterFailure(k, py, rs)
            ELSE
              LET r1 == IF br # Null /\ ~isDuplicate(rs, br[2])
                        THEN push(rs, br[2]) ELSE rs
                  r2 == IF Abs(y[2]) < zeroTol /\ ~isDuplicate(r1, x)
                        THEN push(r1, x) ELSE r1
              IN  [i |-> k + 1, prevY |-> y, roots |-> r2]

findRootsCall(f, a, b) ==
  /\ pc = "idle"
  /\ op' = "findRoots"
  /\ pc' = "loop"
  /\ compiled' = f
  /\ xMin' = a
  /\ xMax' = b
  /\ i' = 0
  /\ prevY' = Null
  /\ prevDeriv' = Null
  /\ roots' = <<>>
  /\ extrema' = <<>>
  /\ visited' = 0
  /\ newtonX' = 0
  /\ newtonI' = 0
  /\ ret' = NoRet
  /\ solution' = NoSolution
  /\ noText
  /\ noIntegral
  /\ UNCHANGED graphVars

findRootsStep ==
  /\ op = "findRoots"
  /\ pc = "loop"
  /\ i <= samples
  /\ LET n == findRootsBody(compiled, xMin, xMax, i, prevY, roots)
     IN  /\ i' = n.i
         /\ prevY' = n.prevY
         /\ roots' = n.roots
  /\ visited' = visited + 1
  /\ UNCHANGED <<op, pc, compiled, xMin, xMax, prevDeriv, extrema, newtonX,
                 newtonI, ret, solution>>
  /\ UNCHANGED textVars
  /\ UNCHANGED integralVars
  /\ UNCHANGED graphVars

findRootsReturn ==
  /\ op = "findRoots"
  /\ pc = "loop"
  /\ i > samples
  /\ pc' = "done"
  /\ UNCHANGED <<op, compiled, xMin, xMax, i, prevY, prevDeriv, roots,
                 extrema, visited, newtonX, newtonI, ret, solution>>
  /\ UNCHANGED textVars
  /\ UNCHANGED integralVars
  /\ UNCHANGED graphVars

\* -------------------------------------------------------- findExtrema
\* (fr - fl) / (2 * h).  h is the same for every estimate of one scan, so an
\* estimate is kept in units of 1 / (2|h|): the numerator fr - fl with the
\* sign of h; with h = 0 the quotient is 0/0 = NaN or a signed infinity.
derivative(fl, fr, h) ==
  IF h = 0
  THEN IF fr = fl THEN NaN ELSE IF fr > fl THEN PosInf ELSE NegInf
  ELSE Num((fr - fl) * Sign(h))

Positive(v) == (v[1] = "num" /\ v[2] > 0) \/ v = PosInf
Negative(v) == (v[1] = "num" /\ v[2] < 0) \/ v = NegInf

\* da * dm < 0
DerivProductNegative(da, dm) ==
  (Positive(da) /\ Negative(dm)) \/ (Negative(da) /\ Positive(dm))

\* One pass of the loop of refine on [a, b]: Null when refine returns null,
\* else <<"next", a, b>> with the interval for the next pass.
refineStep(f, a, b, h) ==
  LET mid == Mid(a, b)
      fl == evaluate(f, mid - h)
      fr == evaluate(f, mid + h)
      fla == evaluate(f, a - h)
      fra == evaluate(f, a + h)
  IN  IF fl = Throw \/ fr = Throw THEN Null
      ELSE IF ~isFinite(fl) \/ ~isFinite(fr) THEN Null
      ELSE IF fla = Throw \/ fra = Throw THEN Null
      ELSE IF ~isFinite(fla) \/ ~isFinite(fra) THEN Null
      ELSE IF DerivProductNegative(derivative(fla[2], fra[2], h),
                                   derivative(fl[2], fr[2], h))
           THEN <<"next", a, mid>>
           ELSE <<"next", mid, b>>

\* The passes lo .. hi - 1 of the loop of refine from the state st:
\* <<"next", a, b>>, or Null once refine has returned null.
RECURSIVE refineRun(_, _, _, _, _)
refineRun(f, h, st, lo, hi) ==
  IF st = Null THEN Null
  ELSE IF hi - lo = 1 THEN refineStep(f, st[2], st[3], h)
  ELSE andThen(refineRun(f, h, st, lo, (lo + hi) \div 2),
               LAMBDA half : refineRun(f, h, half, (lo + hi) \div 2, hi))

\* The point refine returns for the last interval [a, b].
refinePoint(f, a, b) ==
  LET x == Mid(a, b)
      y == evaluate(f, x)
  IN  IF y = Throw \/ ~isFinite(y) THEN Null ELSE <<"point", x, y[2]>>

\* refine from pass j on: bisection on the derivative; Null or the point
\* <<"point", x, y>>.
refine(f, a, b, h, j) ==
  IF j = bisections THEN refinePoint(f, a, b)
  ELSE andThen(refineRun(f, h, <<"next", a, b>>, j, bisections),
               LAMBDA end : IF end = Null THEN Null
                            ELSE refinePoint(f, end[2], end[3]))

\* The number of passes of the loop of refine begun for [a, b].
RECURSIVE refinePasses(_, _, _, _, _)
refinePasses(f, a, b, h, j) ==
  IF j = bisections THEN 0
  ELSE
    LET n == refineStep(f, a, b, h)
    IN  IF n = Null THEN 1 ELSE 1 + refinePasses(f, n[2], n[3], h, j + 1)

\* A push that records the other type.
pushOtherType(ex, e, type) ==
  Append(ex, [x |-> e[2], y |-> e[3],
              type |-> IF type = "max" THEN "min" ELSE "max"])

\* extrema.push({ ...ex, type })
pushExtremum(ex, e, type) == Append(ex, [x |-> e[2], y |-> e[3], type |-> type])

\* One pass of the for loop of findExtrema at sample k.
findExtremaBody(f, a, b, k, pd, ex) ==
  LET dx == sampleDx(a, b)
      h == dx \div hFactor
      x == a + k * dx
      fl == evaluate(f, x - h)
      fr == evaluate(f, x + h)
  IN  IF fl = Throw \/ fr = Throw
      THEN [i |-> k + 1, prevDeriv |-> Null, extrema |-> ex]
      ELSE IF ~isFinite(fl) \/ ~isFinite(fr)
      THEN [i |-> k + 1, prevDeriv |-> Null, extrema |-> ex]
      ELSE
        LET deriv == derivative(fl[2], fr[2], h)
            e == refine(f, x - dx, x, h, 0)
            ex1 == IF pd # Null /\ Positive(pd) /\ Negative(deriv)
                   THEN IF e # Null THEN pushExtremum(ex, e, "max") ELSE ex
                   ELSE IF pd # Null /\ Negative(pd) /\ Positive(deriv)
                   THEN IF e # Null THEN pushExtremum(ex, e, "min") ELSE ex
                   ELSE ex
        IN  [i |-> k + 1, prevDeriv |-> deriv, extrema |-> ex1]

findExtremaCall(f, a, b) ==
  /\ pc = "idle"
  /\ op' = "findExtrema"
  /\ pc' = "loop"
  /\ compiled' = f
  /\ xMin' = a
  /\ xMax' = b
  /\ i' = 0
  /\ prevY' = Null
  /\ prevDeriv' = Null
  /\ roots' = <<>>
  /\ extrema' = <<>>
  /\ visited' = 0
  /\ newtonX' = 0
  /\ newtonI' = 0
  /\ ret' = NoRet
  /\ solution' = NoSolution
  /\ noText
  /\ noIntegral
  /\ UNCHANGED graphVars

findExtremaStep ==
  /\ op = "findExtrema"
  /\ pc = "loop"
  /\ i <= samples
  /\ LET n == findExtremaBody(compiled, xMin, xMax, i, prevDeriv, extrema)
     IN  /\ i' = n.i
         /\ prevDeriv' = n.prevDeriv
         /\ extrema' = n.extrema
  /\ visited' = visited + 1
  /\ UNCHANGED <<op, pc, compiled, xMin, xMax, prevY, roots, newtonX,
                 newtonI, ret, solution>>
  /\ UNCHANGED textVars
  /\ UNCHANGED integralVars
  /\ UNCHANGED graphVars

findExtremaReturn ==
  /\ op = "findExtrema"
  /\ pc = "loop"
  /\ i > samples
  /\ pc' = "done"
  /\ UNCHANGED <<op, compiled, xMin, xMax, i, prevY, prevDeriv, roots,
                 extrema, visited, newtonX, newtonI, ret, solution>>
  /\ UNCHANGED textVars
  /\ UNCHANGED integralVars
  /\ UNCHANGED graphVars

\* ------------------------------------------------------ newtonMethod
\* What newtonMethod returns: r is Num(x) or Null; exit names the return
\* statement taken and iters the number of loop passes begun.
Returned(r, exit, x0, n) == [r |-> r, exit |-> exit, x0 |-> x0, iters |-> n]

\* A return of x as it is.
noSnap(x) == x

\* Math.abs(x) < tol ? 0 : x
snap(x) == IF Abs(x) < tol THEN 0 ELSE x

\* A pass of newtonMethod that estimates the derivative on both sides of x.
newtonBodyCentral(f, x0, x, n) ==
  LET fx == evaluate(f, x)
      fxl == evaluate(f, x - newtonH)
      fxh == evaluate(f, x + newtonH)
  IN  IF fx = Throw \/ fxh = Throw \/ fxl = Throw
      THEN Returned(Null, "throw", x0, n)
      ELSE IF ~isFinite(fx)
      THEN Returned(Null, "nonFinite", x0, n)
      ELSE IF Abs(fx[2]) < tol
      THEN Returned(Num(snap(x)), "tol", x0, n)
      ELSE IF fxh = NaN \/ fxl = NaN
      THEN Returned(Null, "stepNonFinite", x0, n)
      ELSE IF ~isFinite(fxh) \/ ~isFinite(fxl)
      THEN Returned(Num(snap(x)), "step", x0, n)
      ELSE IF fxh[2] - fxl[2] = 0
      THEN Returned(Null, "flat", x0, n)
      ELSE
        LET x1 == x - RoundDiv(fx[2] * 2 * newtonH, fxh[2] - fxl[2])
        IN  IF Abs(x1 - x) < tol
            THEN Returned(Num(snap(x1)), "step", x0, n)
            ELSE Returned(Num(x1), "continue", x0, n)

\* One pass of the for loop of newtonMethod at the iterate x, the n-th pass:
\* a return (exit names the return statement) or exit "continue" with the
\* next iterate in r.
newtonBody(f, x0, x, n) ==
  LET fx == evaluate(f, x)
      fxh == evaluate(f, x + newtonH)
  IN  IF fx = Throw \/ fxh = Throw
      THEN Returned(Null, "throw", x0, n)
      ELSE IF ~isFinite(fx)
      THEN Returned(Null, "nonFinite", x0, n)
      ELSE IF Abs(fx[2]) < tol
      THEN Returned(Num(snap(x)), "tol", x0, n)
      ELSE IF fxh = NaN
      THEN \* dfx and x1 are NaN
           Returned(Null, "stepNonFinite", x0, n)
      ELSE IF ~isFinite(fxh)
      THEN \* dfx is infinite, fx / dfx is 0 and x1 = x
           Returned(Num(snap(x)), "step", x0, n)
      ELSE IF fxh[2] - fx[2] = 0
      THEN \* dfx = (fxh - fx) / h is below 1e-15
           Returned(Null, "flat", x0, n)
      ELSE
        LET x1 == x - RoundDiv(fx[2] * newtonH, fxh[2] - fx[2])
        IN  IF Abs(x1 - x) < tol
            THEN Returned(Num(snap(x1)), "step", x0, n)
            ELSE Returned(Num(x1), "continue", x0, n)

\* A return of the final x without the check.
newtonFinalUnchecked(f, x0, x, n) == Returned(Num(x), "final", x0, n)

\* The check after the loop.
newtonFinal(f, x0, x, n) ==
  LET fx == evaluate(f, x)
  IN  IF fx # Throw /\ isFinite(fx) /\ Abs(fx[2]) < finalTol
      THEN Returned(Num(x), "final", x0, n)
      ELSE Returned(Null, "finalNull", x0, n)

\* ----------------------------------------------------- solveEquation
startPoints ==
  <<0, Unit, -Unit, 2 * Unit, -2 * Unit, 5 * Unit, -5 * Unit, 10 * Unit,
    -10 * Unit, Unit \div 2, -(Unit \div 2), Unit \div 10, -(Unit \div 10),
    3 * Unit, -3 * Unit, 7 * Unit, -7 * Unit, 20 * Unit, -20 * Unit,
    100 * Unit, -100 * Unit>>

\* A duplicate test that never finds a duplicate.
neverDuplicate(rs, root) == FALSE

\* roots.some((r) => Math.abs(r - root) < 1e-8), in solveEquation
isDuplicateRoot(rs, root) ==
  \E k \in 1..Len(rs) : Abs(rs[k] - root) < dedupTol

\* The roots as collected, without the sort.
keepOrder(rs) == rs

\* roots.sort((a, b) => a - b)
sortRoots(rs) == SortSeq(rs, LAMBDA a, b : a < b)

RECURSIVE gcd(_, _)
gcd(a, b) == IF b = 0 THEN a ELSE gcd(b, a % b)

\* toFraction: the first d in 1..maxDenom with round(value * d) / d equal to
\* value on the grid; Null for an integer or when there is none.
toFraction(value) ==
  LET whole == value \div Unit
      part == value % Unit
      ds == {d \in 1..maxDenom : (part * d) % Unit = 0}
  IN  IF ds = {} THEN Null
      ELSE
        LET d == CHOOSE e \in ds : \A e2 \in ds : e <= e2
            n == whole * d + (part * d) \div Unit
            g == gcd(Abs(n), d)
        IN  IF d = 1 \/ d \div g = 1 THEN Null
            ELSE <<"frac", n \div g, d \div g>>

\* A formatter without the Number.isInteger rule.
formatRootNoInteger(r) ==
  IF Abs(r) < fmtZeroTol THEN <<"0">>
  ELSE LET frac == toFraction(r)
       IN  IF frac # Null THEN <<"frac", frac[2], frac[3], r>>
           ELSE <<"dec", r>>

\* The display string of one root, as the tuple of its parts; the last part
\* of a fraction or decimal is the number printed.
formatRoot(r) ==
  IF Abs(r) < fmtZeroTol THEN <<"0">>
  ELSE IF r % Unit = 0 THEN <<"int", r \div Unit>>
  ELSE LET frac == toFraction(r)
       IN  IF frac # Null THEN <<"frac", frac[2], frac[3], r>>
           ELSE <<"dec", r>>

formatRoots(rs) == [k \in 1..Len(rs) |-> formatRoot(rs[k])]

\* A Solution built without the check for an empty roots array.
solutionUnchecked(rs) == [roots |-> formatRoots(sortRoots(rs)), error |-> "none"]

\* A Solution that reports an empty roots array with the message of the
\* catch block.
solutionParseError(rs) ==
  IF Len(rs) = 0
  THEN [roots |-> <<>>, error |-> "parse"]
  ELSE [roots |-> formatRoots(sortRoots(rs)), error |-> "none"]

\* The Solution returned once every start point has been tried.
solutionOf(rs) ==
  LET sorted == sortRoots(rs)
  IN  IF Len(sorted) = 0
      THEN [roots |-> <<>>, error |-> "noSolution"]
      ELSE [roots |-> formatRoots(sorted), error |-> "none"]

\* ------------------------------------- solveEquation: the text given
\* A text is a sequence of one-character strings.

\* \s
Whitespace == {" ", "\t", "\n", "\r"}

\* equation.replace(/\s+/g, '')
stripSpaces(text) == SelectSeq(text, LAMBDA ch : ch \notin Whitespace)

\* [a-zA-Z_]
Letters ==
  {"a", "b", "c", "d", "e", "f", "g", "h", "i", "j", "k", "l", "m", "n",
   "o", "p", "q", "r", "s", "t", "u", "v", "w", "x", "y", "z"}
  \cup {"A", "B", "C", "D", "E", "F", "G", "H", "I", "J", "K", "L", "M", "N",
        "O", "P", "Q", "R", "S", "T", "U", "V", "W", "X", "Y", "Z"}
  \cup {"_"}

\* eq.match(/[a-zA-Z_]+/g) || []: the maximal runs of letters from position
\* p on, cur being the run in progress.
RECURSIVE match(_, _, _)
match(eq, p, cur) ==
  IF p > Len(eq)
  THEN IF cur = <<>> THEN <<>> ELSE <<cur>>
  ELSE IF eq[p] \in Letters
       THEN match(eq, p + 1, Append(cur, eq[p]))
       ELSE (IF cur = <<>> THEN <<>> ELSE <<cur>>) \o match(eq, p + 1, <<>>)

allSymbols(eq) == match(eq, 1, <<>>)

mathFunctions ==
  {<<"s", "i", "n">>,
   <<"c", "o", "s">>,
   <<"t", "a", "n">>,
   <<"a", "s", "i", "n">>,
   <<"a", "c", "o", "s">>,
   <<"a", "t", "a", "n">>,
   <<"s", "q", "r", "t">>,
   <<"l", "o", "g">>,
   <<"l", "n">>,
   <<"a", "b", "s">>,
   <<"e", "x", "p">>,
   <<"p", "i">>,
   <<"e">>,
   <<"c", "e", "i", "l">>,
   <<"f", "l", "o", "o", "r">>,
   <<"r", "o", "u", "n", "d">>,
   <<"s", "i", "g", "n">>}

\* A filter that lets every symbol through.
keepEverySymbol(s) == TRUE

\* !mathFunctions.has(s)
notMathFunction(s) == s \notin mathFunctions

\* [...new Set(symbols)]: the first occurrence of each symbol, in order.
RECURSIVE unique(_)
unique(symbols) ==
  IF symbols = <<>> THEN <<>>
  ELSE LET init == unique(SubSeq(symbols, 1, Len(symbols) - 1))
           last == symbols[Len(symbols)]
       IN  IF \E k \in 1..Len(init) : init[k] = last
           THEN init ELSE Append(init, last)

detectedVars(eq) ==
  unique(SelectSeq(allSymbols(eq), LAMBDA s : notMathFunction(s)))

\* detectedVars[0] || 'x'
variableOf(eq) ==
  IF detectedVars(eq) = <<>> THEN <<"x">> ELSE detectedVars(eq)[1]

\* eq.includes('=')
includes(eq, ch) == \E k \in 1..Len(eq) : eq[k] = ch

\* eq.split('='): the pieces between the separators.
RECURSIVE splitFrom(_, _, _, _)
splitFrom(eq, ch, p, cur) ==
  IF p > Len(eq) THEN <<cur>>
  ELSE IF eq[p] = ch
       THEN <<cur>> \o splitFrom(eq, ch, p + 1, <<>>)
       ELSE splitFrom(eq, ch, p + 1, Append(cur, eq[p]))

split(eq, ch) == splitFrom(eq, ch, 1, <<>>)

\* The sides lhs and rhs of the stripped text.
sidesOf(eq) ==
  IF includes(eq, "=")
  THEN LET parts == split(eq, "=") IN <<parts[1], parts[2]>>
  ELSE <<eq, <<"0">>>>

\* `(${lhs}) - (${rhs})`
fExprOf(l, r) == <<"(">> \o l \o <<")", " ", "-", " ", "(">> \o r \o <<")">>

\* math.compile accepts an expression of letters, digits and operators that
\* is not empty, does not end in an operator and has no operator where an
\* operand must stand.
Digits == {"0", "1", "2", "3", "4", "5", "6", "7", "8", "9"}
Operators == {"+", "-", "*", "/", "^"}
Binary == {"*", "/", "^"}

validExpr(e) ==
  /\ Len(e) > 0
  /\ \A k \in 1..Len(e) : e[k] \in Letters \cup Digits \cup Operators
  /\ e[Len(e)] \notin Operators
  /\ e[1] \notin Binary
  /\ \A k \in 1..(Len(e) - 1) : e[k] \in Operators => e[k + 1] \notin Binary

\* math.compile(fExpr) succeeds: both bracketed operands are expressions.
compiles(e) ==
  \E p \in 2..(Len(e) - 6) :
    /\ e[p] = ")"
    /\ \A k \in 2..(p - 1) : e[k] # ")"
    /\ validExpr(SubSeq(e, 2, p - 1))
    /\ validExpr(SubSeq(e, p + 5, Len(e) - 1))

\* The texts given to solveEquation.
Equations ==
  {<<>>,
   <<"=">>,
   <<"x">>,
   <<"x", "=">>,
   <<" ", "x", " ", "=", " ", "2">>,
   <<"x", "=", "2", "=", "3">>,
   <<"e", "=", "y">>,
   <<"s", "i", "n">>,
   <<"2", "=", "2">>,
   <<"y", "+", "x", "-", "y">>,
   <<"2", "a", "b", "=", "p", "i">>}

\* Lines 13-58: the text is stripped, the variable detected, the sides
\* split and f = (lhs) - (rhs) compiled; a compile failure is caught and
\* reported.  f is the function the compiled text denotes.
solveEquationCall(text, f) ==
  /\ pc = "idle"
  /\ op' = "solveEquation"
  /\ equation' = text
  /\ LET eq == stripSpaces(text)
         sides == sidesOf(eq)
         e == fExprOf(sides[1], sides[2])
     IN  /\ variable' = variableOf(eq)
         /\ lhs' = sides[1]
         /\ rhs' = sides[2]
         /\ fExpr' = e
         /\ IF compiles(e)
            THEN /\ compiled' = f
                 /\ pc' = "loop"
                 /\ i' = 1
                 /\ solution' = NoSolution
            ELSE /\ compiled' = Handle("unparsable", 0, 0, 0)
                 /\ pc' = "done"
                 /\ i' = 0
                 /\ solution' = [roots |-> <<>>, error |-> "parse"]
  /\ xMin' = 0
  /\ xMax' = 0
  /\ prevY' = Null
  /\ prevDeriv' = Null
  /\ roots' = <<>>
  /\ extrema' = <<>>
  /\ visited' = 0
  /\ newtonX' = 0
  /\ newtonI' = 0
  /\ ret' = NoRet
  /\ noIntegral
  /\ UNCHANGED graphVars

\* if (root !== null) { if (!isDuplicate) roots.push(root) }
collect(rs, r) ==
  IF r # Null /\ ~isDuplicateRoot(rs, r[2]) THEN Append(rs, r[2]) ELSE rs

\* The loop over startPoints calls newtonMethod(compiled, variable, x0).
newtonMethodCall ==
  /\ op = "solveEquation"
  /\ pc = "loop"
  /\ i <= Len(startPoints)
  /\ pc' = "newton"
  /\ newtonX' = startPoints[i]
  /\ newtonI' = 0
  /\ UNCHANGED <<op, compiled, xMin, xMax, i, prevY, prevDeriv, roots,
                 extrema, visited, ret, solution>>
  /\ UNCHANGED textVars
  /\ UNCHANGED integralVars
  /\ UNCHANGED graphVars

\* newtonMethod returns res to the loop of solveEquation, which collects it.
newtonReturns(res) ==
  /\ pc' = "loop"
  /\ ret' = res
  /\ roots' = collect(roots, res.r)
  /\ i' = i + 1
  /\ visited' = visited + 1
  /\ UNCHANGED <<newtonX, newtonI>>

\* One pass of the for loop of newtonMethod.
newtonMethodStep ==
  /\ op = "solveEquation"
  /\ pc = "newton"
  /\ newtonI < maxIter
  /\ LET res == newtonBody(compiled, startPoints[i], newtonX, newtonI + 1)
     IN  IF res.exit = "continue"
         THEN /\ newtonX' = res.r[2]
              /\ newtonI' = newtonI + 1
              /\ UNCHANGED <<pc, ret, roots, i, visited>>
         ELSE newtonReturns(res)
  /\ UNCHANGED <<op, compiled, xMin, xMax, prevY, prevDeriv, extrema,
                 solution>>
  /\ UNCHANGED textVars
  /\ UNCHANGED integralVars
  /\ UNCHANGED graphVars

\* The loop of newtonMethod ran maxIter passes: the final check.
newtonMethodFinal ==
  /\ op = "solveEquation"
  /\ pc = "newton"
  /\ newtonI >= maxIter
  /\ newtonReturns(newtonFinal(compiled, startPoints[i], newtonX, newtonI))
  /\ UNCHANGED <<op, compiled, xMin, xMax, prevY, prevDeriv, extrema,
                 solution>>
  /\ UNCHANGED textVars
  /\ UNCHANGED integralVars
  /\ UNCHANGED graphVars

\* After the loop: sort, format and return.
solveEquationReturn ==
  /\ op = "solveEquation"
  /\ pc = "loop"
  /\ i > Len(startPoints)
  /\ pc' = "done"
  /\ solution' = solutionOf(roots)
  /\ UNCHANGED <<op, compiled, xMin, xMax, i, prevY, prevDeriv, roots,
                 extrema, visited, ret, newtonX, newtonI>>
  /\ UNCHANGED textVars
  /\ UNCHANGED integralVars
  /\ UNCHANGED graphVars

\* ------------------------------------- draw: the integral curve
\* a * b / Unit: the product of two grid values, on the grid.
MulFix(a, b) ==
  Sign(a) * ((Abs(a) \div Unit) * b + ((Abs(a) % Unit) * b) \div Unit)

\* (sx - w / 2) / scale + cx
toWorldX(v, sx) == RoundDiv((2 * sx - v.w) * Unit, 2 * v.scale) + v.cx

\* Math.ceil(w / step)
totalPx(v) == (v.w + pxStep - 1) \div pxStep

\* Math.round((0 - cx) * scale + w / 2); Math.round(t) is floor(t + 0.5).
originPx(v) == (v.w * Unit + Unit - 2 * v.cx * v.scale) \div (2 * Unit)

\* Math.round(originPx / step)
zeroPxIdx(v) == (2 * originPx(v) + pxStep) \div (2 * pxStep)

\* Math.max(0, zeroPxIdx), Math.min(totalPx, zeroPxIdx)
startRight(v) == IF zeroPxIdx(v) > 0 THEN zeroPxIdx(v) ELSE 0
startLeft(v) == IF zeroPxIdx(v) < totalPx(v) THEN zeroPxIdx(v) ELSE totalPx(v)

inDomain(x, e) ==
  /\ e.domainMin # Null =>
       ~(IF e.domainMinOpen THEN x <= e.domainMin[2] ELSE x < e.domainMin[2])
  /\ e.domainMax # Null =>
       ~(IF e.domainMaxOpen THEN x >= e.domainMax[2] ELSE x > e.domainMax[2])

\* canIntegrate, for a compiled expression: enough finite test points, and
\* finite values at 0 and 0.001 either side of it.
testPoints ==
  <<0, Unit \div 1000, -(Unit \div 1000), Unit \div 2, -(Unit \div 2), Unit,
    -Unit, 2 * Unit, -2 * Unit, 5 * Unit, -5 * Unit>>

canIntegrate(f) ==
  LET valid == {k \in 1..Len(testPoints) :
                  LET y == evaluate(f, testPoints[k])
                  IN  y # Throw /\ isFinite(y)}
  IN  /\ Cardinality(valid) >= 3
      /\ {1, 2, 3} \subseteq valid

\* (prevF + fVal) / 2 * dx2
trapezoid(prevF, fVal, dx2) == MulFix(prevF + fVal, dx2) \div 2

\* integralVals[idx] = value (the array is indexed from 0).
store(vals, idx, value) == [vals EXCEPT ![idx + 1] = value]

\* One pass of either loop at sample idx; from is the first index of the
\* loop and side the index of the neighbour already walked: the new array
\* and running sum.
walkBody(f, v, e, vals, a, idx, from, side) ==
  LET xVal == toWorldX(v, idx * pxStep) - e.dx
      fVal == IF inDomain(xVal, e) THEN evaluate(f, xVal) ELSE Null
  IN  IF fVal = Null \/ fVal = Throw \/ ~isFinite(fVal)
      THEN [vals |-> store(vals, idx, Null), acc |-> a]
      ELSE
        LET a0 == IF idx = from THEN 0 ELSE a
            sideX == toWorldX(v, side * pxStep) - e.dx
            sideF == IF idx # from /\ vals[side + 1] # Null
                     THEN evaluate(f, sideX) ELSE Null
            a1 == IF sideF # Null /\ sideF # Throw /\ isFinite(sideF)
                  THEN a0 + trapezoid(sideF[2], fVal[2], xVal - sideX)
                  ELSE a0
        IN  [vals |-> store(vals, idx, Num(a1)), acc |-> a1]

\* The functions, views and entries the integral curve is built for.
IntegralHandles ==
  {Handle("lin", 0, 1, 0),
   Handle("lin", Unit, 1, 0),
   Handle("sq", 0, Unit, 0),
   Handle("pole", Unit, 1000000000, 0),
   Handle("step", Unit, Unit \div 2, 0)}

Views ==
  {[w |-> w, scale |-> sc, cx |-> c] :
     w \in {MaxWidth - 1, MaxWidth}, sc \in {2},
     c \in {0, Unit \div 2, -2 * Unit, 2 * Unit, 4 * Unit, -4 * Unit}}

Entries ==
  {[dx |-> d, domainMin |-> lo[1], domainMax |-> hi, domainMinOpen |-> lo[2],
    domainMaxOpen |-> FALSE] :
     d \in {0, Unit},
     lo \in {<<Null, FALSE>>, <<Num(0), TRUE>>, <<Num(Unit), FALSE>>},
     hi \in {Null, Num(2 * Unit)}}

\* Lines 559-571: the array is allocated and the sample nearest x = 0 set.
buildIntegralCall(f, v, e) ==
  /\ pc = "idle"
  /\ canIntegrate(f)
  /\ op' = "integral"
  /\ pc' = "right"
  /\ compiled' = f
  /\ view' = v
  /\ fn' = e
  /\ integralVals' =
       [k \in 1..(totalPx(v) + 1) |->
          IF k - 1 = zeroPxIdx(v) THEN Num(0) ELSE Null]
  /\ acc' = 0
  /\ i' = startRight(v)
  /\ xMin' = 0
  /\ xMax' = 0
  /\ prevY' = Null
  /\ prevDeriv' = Null
  /\ roots' = <<>>
  /\ extrema' = <<>>
  /\ visited' = 0
  /\ newtonX' = 0
  /\ newtonI' = 0
  /\ ret' = NoRet
  /\ solution' = NoSolution
  /\ noText
  /\ UNCHANGED graphVars

integralUnchanged ==
  UNCHANGED <<op, compiled, xMin, xMax, prevY, prevDeriv, roots, extrema,
              newtonX, newtonI, ret, solution, textVars, view, fn>>

\* One pass of the loop to the right.
integralRightStep ==
  /\ op = "integral"
  /\ pc = "right"
  /\ i <= totalPx(view)
  /\ LET n == walkBody(compiled, view, fn, integralVals, acc, i,
                       startRight(view), i - 1)
     IN  /\ integralVals' = n.vals
         /\ acc' = n.acc
  /\ i' = i + 1
  /\ visited' = visited + 1
  /\ pc' = pc
  /\ integralUnchanged
  /\ UNCHANGED graphVars

\* The loop to the right is over: acc = 0 and the loop to the left begins.
integralTurn ==
  /\ op = "integral"
  /\ pc = "right"
  /\ i > totalPx(view)
  /\ pc' = "left"
  /\ acc' = 0
  /\ i' = startLeft(view)
  /\ UNCHANGED <<integralVals, visited>>
  /\ integralUnchanged
  /\ UNCHANGED graphVars

\* One pass of the loop to the left.
integralLeftStep ==
  /\ op = "integral"
  /\ pc = "left"
  /\ i >= 0
  /\ LET n == walkBody(compiled, view, fn, integralVals, acc, i,
                       startLeft(view), i + 1)
     IN  /\ integralVals' = n.vals
         /\ acc' = n.acc
  /\ i' = i - 1
  /\ visited' = visited + 1
  /\ pc' = pc
  /\ integralUnchanged
  /\ UNCHANGED graphVars

\* Both loops are over: the curve is drawn from integralVals.
integralReturn ==
  /\ op = "integral"
  /\ pc = "left"
  /\ i < 0
  /\ pc' = "done"
  /\ UNCHANGED <<integralVals, acc, i, visited>>
  /\ integralUnchanged
  /\ UNCHANGED graphVars

\* ------------------------------------------------------ the caller
\* The caller has used what the operation returned; nothing of the call is
\* kept.
callerContinues ==
  /\ pc = "done"
  /\ op' = "none"
  /\ pc' = "idle"
  /\ compiled' = Handle("nan", 0, 0, 0)
  /\ xMin' = 0
  /\ xMax' = 0
  /\ i' = 0
  /\ prevY' = Null
  /\ prevDeriv' = Null
  /\ roots' = <<>>
  /\ extrema' = <<>>
  /\ visited' = 0
  /\ newtonX' = 0
  /\ newtonI' = 0
  /\ ret' = NoRet
  /\ solution' = NoSolution
  /\ noText
  /\ noIntegral
  /\ UNCHANGED graphVars

Next ==
  \/ \E f \in ScanHandles, iv \in Intervals : findRootsCall(f, iv[1], iv[2])
  \/ findRootsStep
  \/ findRootsReturn
  \/ \E f \in ScanHandles, iv \in Intervals : findExtremaCall(f, iv[1], iv[2])
  \/ findExtremaStep
  \/ findExtremaReturn
  \/ \E text \in Equations, f \in EqHandles : solveEquationCall(text, f)
  \/ newtonMethodCall
  \/ newtonMethodStep
  \/ newtonMethodFinal
  \/ solveEquationReturn
  \/ \E f \in IntegralHandles, v \in Views, e \in Entries :
       buildIntegralCall(f, v, e)
  \/ integralRightStep
  \/ integralTurn
  \/ integralLeftStep
  \/ integralReturn
  \/ callerContinues

Spec == Init /\ [][Next]_vars

\* ------------------------------------------- formatting on its own
\* The roots whose formatting is examined: the multiples of 1/200 up to
\* MaxFormat/200, and the values a few grid steps from them.
FormatInputs ==
  {k * (Unit \div 200) + e : k \in (-MaxFormat)..MaxFormat, e \in {-5, -1, 0, 3}}

\* solveEquation has tried every start point of x - r and collected r.
InitFormat ==
  /\ op = "solveEquation"
  /\ pc = "loop"
  /\ roots \in {<<r>> : r \in FormatInputs}
  /\ compiled = Handle("lin", roots[1], 1, 0)
  /\ xMin = 0
  /\ xMax = 0
  /\ i = Len(startPoints) + 1
  /\ prevY = Null
  /\ prevDeriv = Null
  /\ extrema = <<>>
  /\ visited = Len(startPoints)
  /\ newtonX = roots[1]
  /\ newtonI = 1
  /\ ret = Returned(Num(roots[1]), "tol", -100 * Unit, 1)
  /\ solution = NoSolution
  /\ equation = <<"x">>
  /\ variable = <<"x">>
  /\ lhs = <<"x">>
  /\ rhs = <<"0">>
  /\ fExpr = fExprOf(lhs, rhs)
  /\ view = NoView
  /\ fn = NoEntry
  /\ integralVals = <<>>
  /\ acc = 0
  /\ InitGraph

NextFormat == solveEquationReturn

FormatSpec == InitFormat /\ [][NextFormat]_vars

\* ------------------------------------------------ Graph: the list
\* An entry of functions keeps expr, dx, dy and showIntegral; color, visible
\* (true), the domain (null) and showDerivative are left out.
newEntry(expr) == [expr |-> expr, dx |-> 0, dy |-> 0, showIntegral |-> FALSE]

\* text.trim()
RECURSIVE trimStart(_)
trimStart(text) ==
  IF text = <<>> THEN <<>>
  ELSE IF Head(text) \in Whitespace THEN trimStart(Tail(text))
  ELSE text

RECURSIVE trimEnd(_)
trimEnd(text) ==
  IF text = <<>> THEN <<>>
  ELSE IF text[Len(text)] \in Whitespace
  THEN trimEnd(SubSeq(text, 1, Len(text) - 1))
  ELSE text

trim(text) == trimEnd(trimStart(text))

\* compile(expr) of mathjs for the expressions typed in: x, 1/x and x^2-4;
\* any other text does not compile (every use is inside a try block).
compileExpr(expr) ==
  IF expr = <<"x">> THEN Handle("lin", 0, 1, 0)
  ELSE IF expr = <<"1", "/", "x">> THEN Handle("pole", 0, Unit * Unit, 0)
  ELSE IF expr = <<"x", "^", "2", "-", "4">> THEN Handle("sq", 4 * Unit, Unit, 0)
  ELSE Handle("throws", 0, 0, 0)

\* The texts typed into the input and edit boxes.
Typed == {<<" ">>, <<" ", "x", " ">>, <<"1", "/", "x">>}

\* The Graph's view { cx, cy, scale } with the canvas size { w, h }.
GraphView == [w |-> 1000, h |-> 500, scale |-> 50, cx |-> 0, cy |-> 0]

\* dx: clipboardRef.current.dx + 0.5, dy: clipboardRef.current.dy + 0.5
pasteShift == Unit \div 2

\* prev.filter((_, i) => i !== index), for the 0-based index
without(fs, index) ==
  [k \in 1..(Len(fs) - 1) |-> IF k <= index THEN fs[k] ELSE fs[k + 1]]

\* A selection that stays where it is when an entry is removed.
selectionKept(prev, index) == prev

\* The updater of setSelectedIndex in removeFunction.
selectionAfterRemove(prev, index) ==
  IF prev = NoIndex THEN NoIndex
  ELSE IF prev = index THEN NoIndex
  ELSE IF prev > index THEN prev - 1
  ELSE prev

\* selectedIndex !== null && functions[selectedIndex]
hasSelection == selectedIndex # NoIndex /\ selectedIndex < Len(functions)

addFunction(input) ==
  /\ Len(functions) < MaxFunctions
  /\ trim(input) # <<>>
  /\ functions' = Append(functions, newEntry(trim(input)))
  /\ UNCHANGED <<selectedIndex, clipboard, editingIndex, editingExpr>>
  /\ UNCHANGED <<tangentVars, view, engineVars>>

removeFunction(index) ==
  /\ index \in 0..(Len(functions) - 1)
  /\ functions' = without(functions, index)
  /\ selectedIndex' = selectionAfterRemove(selectedIndex, index)
  /\ UNCHANGED <<clipboard, editingIndex, editingExpr>>
  /\ UNCHANGED <<tangentVars, view, engineVars>>

\* onClick of a list item
clickItem(index) ==
  /\ index \in 0..(Len(functions) - 1)
  /\ editingIndex # index
  /\ selectedIndex' = IF selectedIndex = index THEN NoIndex ELSE index
  /\ UNCHANGED <<functions, clipboard, editingIndex, editingExpr>>
  /\ UNCHANGED <<tangentVars, view, engineVars>>

\* ctxCopy, and Ctrl+C
ctxCopy ==
  /\ hasSelection
  /\ clipboard' = functions[selectedIndex + 1]
  /\ UNCHANGED <<functions, selectedIndex, editingIndex, editingExpr>>
  /\ UNCHANGED <<tangentVars, view, engineVars>>

\* ctxCut, and Ctrl+X
ctxCut ==
  /\ hasSelection
  /\ clipboard' = functions[selectedIndex + 1]
  /\ functions' = without(functions, selectedIndex)
  /\ selectedIndex' = selectionAfterRemove(selectedIndex, selectedIndex)
  /\ UNCHANGED <<editingIndex, editingExpr>>
  /\ UNCHANGED <<tangentVars, view, engineVars>>

\* ctxPaste, and Ctrl+V
ctxPaste ==
  /\ clipboard # NoClipboard
  /\ Len(functions) < MaxFunctions
  /\ clipboard.dx < MaxPastes * pasteShift
  /\ functions' =
       Append(functions, [clipboard EXCEPT !.dx = clipboard.dx + pasteShift,
                                           !.dy = clipboard.dy + pasteShift])
  /\ selectedIndex' = Len(functions)
  /\ UNCHANGED <<clipboard, editingIndex, editingExpr>>
  /\ UNCHANGED <<tangentVars, view, engineVars>>

ctxDeselect ==
  /\ selectedIndex' = NoIndex
  /\ UNCHANGED <<functions, clipboard, editingIndex, editingExpr>>
  /\ UNCHANGED <<tangentVars, view, engineVars>>

startEditing(index) ==
  /\ index \in 0..(Len(functions) - 1)
  /\ editingIndex' = index
  /\ editingExpr' = functions[index + 1].expr
  /\ UNCHANGED <<functions, selectedIndex, clipboard>>
  /\ UNCHANGED <<tangentVars, view, engineVars>>

\* onChange of the edit box
changeEditing(text) ==
  /\ editingIndex # NoIndex
  /\ editingIndex < Len(functions)
  /\ editingExpr' = text
  /\ UNCHANGED <<functions, selectedIndex, clipboard, editingIndex>>
  /\ UNCHANGED <<tangentVars, view, engineVars>>

commitEditing ==
  /\ editingIndex # NoIndex
  /\ functions' =
       IF trim(editingExpr) # <<>>
       THEN [k \in 1..Len(functions) |->
               IF k - 1 = editingIndex
               THEN [functions[k] EXCEPT !.expr = trim(editingExpr)]
               ELSE functions[k]]
       ELSE functions
  /\ editingIndex' = NoIndex
  /\ editingExpr' = <<>>
  /\ UNCHANGED <<selectedIndex, clipboard>>
  /\ UNCHANGED <<tangentVars, view, engineVars>>

cancelEditing ==
  /\ editingIndex # NoIndex
  /\ editingIndex' = NoIndex
  /\ editingExpr' = <<>>
  /\ UNCHANGED <<functions, selectedIndex, clipboard>>
  /\ UNCHANGED <<tangentVars, view, engineVars>>

\* onClick of the F(x) button: the entry after it, the same entry when
\* canIntegrate refuses to switch the curve on.
toggled(entry) ==
  IF ~entry.showIntegral /\ ~canIntegrate(compileExpr(entry.expr))
  THEN entry
  ELSE [entry EXCEPT !.showIntegral = ~entry.showIntegral]

toggleIntegral(index) ==
  /\ index \in 0..(Len(functions) - 1)
  /\ functions' = [functions EXCEPT ![index + 1] = toggled(functions[index + 1])]
  /\ UNCHANGED <<selectedIndex, clipboard, editingIndex, editingExpr>>
  /\ UNCHANGED <<tangentVars, view, engineVars>>

\* ------------------------------------------- Graph: mouse and tangent
hitThreshold == 8      \* hitTestCurve: threshold = 8 pixels
tangentThreshold == 20 \* computeTangent: threshold = 20 pixels
hh == 50               \* computeTangent: hh = 1e-6
snapUnits == 75        \* computeTangent: snapThreshold = 1.5 / scale * 50

\* The scans as single calls: the passes lo .. hi of the loop applied in
\* order to the loop state st = [i, prevY, roots] (or [i, prevDeriv,
\* extrema]), the passes of the lower half first; their state, with
\* i = m + 1, is the one the passes of the upper half start from.
RECURSIVE rootsScan(_, _, _, _, _, _)
rootsScan(f, a, b, lo, hi, st) ==
  IF lo = hi THEN findRootsBody(f, a, b, lo, st.prevY, st.roots)
  ELSE andThen(rootsScan(f, a, b, lo, (lo + hi) \div 2, st),
               LAMBDA left : rootsScan(f, a, b, (lo + hi) \div 2 + 1, hi, left))

findRoots(f, a, b) ==
  andThen(<<f, a, b>>,
          LAMBDA arg : rootsScan(arg[1], arg[2], arg[3], 0, samples,
                                 [i |-> 0, prevY |-> Null, roots |-> <<>>]).roots)

RECURSIVE extremaScan(_, _, _, _, _, _)
extremaScan(f, a, b, lo, hi, st) ==
  IF lo = hi THEN findExtremaBody(f, a, b, lo, st.prevDeriv, st.extrema)
  ELSE andThen(extremaScan(f, a, b, lo, (lo + hi) \div 2, st),
               LAMBDA left : extremaScan(f, a, b, (lo + hi) \div 2 + 1, hi, left))

findExtrema(f, a, b) ==
  andThen(<<f, a, b>>,
          LAMBDA arg : extremaScan(arg[1], arg[2], arg[3], 0, samples,
                                   [i |-> 0, prevDeriv |-> Null, extrema |-> <<>>]).extrema)

\* Math.abs(sy - screenY) for the curve of entry e under screenX, in units of
\* 1 / (2 * Unit) pixels; Null where the loop skips the entry.
curveDist(e, v, screenX, screenY) ==
  LET wx == toWorldX(v, screenX) - e.dx
      y == evaluate(compileExpr(e.expr), wx)
  IN  IF y = Throw \/ ~isFinite(y) THEN Null
      ELSE Num(Abs((v.h - 2 * screenY) * Unit
                   - 2 * (y[2] + e.dy - v.cy) * v.scale))

\* The loop over the entries from index fi on: the index of the first entry
\* whose curve is strictly nearer than every one before it, or -1.
RECURSIVE nearestCurve(_, _, _, _, _, _, _)
nearestCurve(fs, v, screenX, screenY, fi, bestIndex, bestDist) ==
  IF fi >= Len(fs) THEN bestIndex
  ELSE
    LET d == curveDist(fs[fi + 1], v, screenX, screenY)
    IN  IF d # Null /\ d[2] < bestDist
        THEN nearestCurve(fs, v, screenX, screenY, fi + 1, fi, d[2])
        ELSE nearestCurve(fs, v, screenX, screenY, fi + 1, bestIndex, bestDist)

hitTestCurve(fs, v, screenX, screenY) ==
  nearestCurve(fs, v, screenX, screenY, 0, -1, 2 * hitThreshold * Unit)

\* snapPoints before the sort: the extrema ex, then the roots rs, each with
\* its distance from wx.
snapPoints(ex, rs, wx) ==
  [k \in 1..Len(ex) |-> [x |-> ex[k].x, dist |-> Abs(ex[k].x - wx)]]
  \o [k \in 1..Len(rs) |-> [x |-> rs[k], dist |-> Abs(rs[k] - wx)]]

\* snapPoints[0] after the (stable) sort by dist.
nearestPoint(points) ==
  LET k == CHOOSE k \in 1..Len(points) :
             \A j \in 1..Len(points) :
               \/ points[k].dist < points[j].dist
               \/ points[k].dist = points[j].dist /\ k <= j
  IN  points[k]

\* A magnet that snaps to the nearest point however far it is.
snapAnyDistance(wx, points, scale) ==
  IF points = <<>> THEN wx ELSE nearestPoint(points).x

\* wx after the magnet: snapPoints[0].x when its dist is below snapThreshold.
snapTo(wx, points, scale) ==
  IF points = <<>> THEN wx
  ELSE IF nearestPoint(points).dist * scale < snapUnits * Unit
  THEN nearestPoint(points).x
  ELSE wx

\* A slope taken from the right half of the interval only.
forwardSlope(fl, fy, fr) == RoundDiv((fr - fy) * Unit, hh)

\* (fr - fl) / (2 * hh)
slopeOf(fl, fy, fr) == RoundDiv((fr - fl) * Unit, 2 * hh)

\* The interval computeTangent searches for entry e.
searchMin(v, e) == toWorldX(v, 0) - e.dx
searchMax(v, e) == toWorldX(v, v.w) - e.dx

\* wx of computeTangent for entry e: toWorldX(screenX) - fn.dx, moved by the
\* magnet when it is on.
tangentX(e, v, magnet, screenX) ==
  IF magnet
  THEN snapTo(toWorldX(v, screenX) - e.dx,
              snapPoints(findExtrema(compileExpr(e.expr), searchMin(v, e),
                                     searchMax(v, e)),
                         findRoots(compileExpr(e.expr), searchMin(v, e),
                                   searchMax(v, e)),
                         toWorldX(v, screenX) - e.dx),
              v.scale)
  ELSE toWorldX(v, screenX) - e.dx

\* The tangent of entry e (at bestIndex) at wx, or null.
tangentAt(bestIndex, e, wx) ==
  LET f == compileExpr(e.expr)
      fl == evaluate(f, wx - hh)
      fr == evaluate(f, wx + hh)
      fy == evaluate(f, wx)
  IN  IF fl = Throw \/ fr = Throw \/ fy = Throw THEN NoTangent
      ELSE IF ~isFinite(fl) \/ ~isFinite(fr) \/ ~isFinite(fy) THEN NoTangent
      ELSE [fnIndex |-> bestIndex, wx |-> wx + e.dx, wy |-> fy[2] + e.dy,
            slope |-> slopeOf(fl[2], fy[2], fr[2])]

\* The nearest curve within threshold pixels of the mouse, or -1.
tangentCurve(fs, v, screenX, screenY) ==
  nearestCurve(fs, v, screenX, screenY, 0, -1, 2 * tangentThreshold * Unit)

\* tangentInfoRef.current after computeTangent(screenX, screenY) for the
\* curve at bestIndex.
tangentOn(bestIndex, fs, v, magnet, screenX) ==
  IF bestIndex < 0 THEN NoTangent
  ELSE tangentAt(bestIndex, fs[bestIndex + 1],
                 tangentX(fs[bestIndex + 1], v, magnet, screenX))

computeTangent(fs, v, magnet, screenX, screenY) ==
  tangentOn(tangentCurve(fs, v, screenX, screenY), fs, v, magnet, screenX)

\* A pin that loses the slope.
pinnedFlat(t) == [wx |-> t.wx, wy |-> t.wy, slope |-> 0]

\* { wx, wy, slope, color } of the live tangent.
pinned(t) == [wx |-> t.wx, wy |-> t.wy, slope |-> t.slope]

handleMouseDown(screenX, screenY) ==
  LET pins == tangentMode /\ tangentInfo # NoTangent
      hitIndex == hitTestCurve(functions, view, screenX, screenY)
  IN  /\ pins => Len(pinnedTangents) < MaxPinned
      /\ pinnedTangents' =
           IF pins THEN Append(pinnedTangents, pinned(tangentInfo))
           ELSE pinnedTangents
      /\ IF pins
         THEN UNCHANGED <<selectedIndex, dragRef>>
         ELSE /\ selectedIndex' = IF hitIndex >= 0 THEN hitIndex ELSE NoIndex
              /\ dragRef' = [dragging |-> TRUE,
                             mode |-> IF hitIndex >= 0 THEN "graph" ELSE "pan",
                             graphIndex |-> hitIndex]
      /\ UNCHANGED <<functions, clipboard, editingIndex, editingExpr,
                     magnetMode, tangentMode, tangentInfo, view, engineVars>>

\* mx / view.scale
travel(px, scale) == RoundDiv(px * Unit, scale)

\* The entries after a drag of entry gi by the mouse travel (mx, my).
dragged(fs, gi, mx, my, scale) ==
  [k \in 1..Len(fs) |->
     IF k - 1 = gi
     THEN [fs[k] EXCEPT !.dx = fs[k].dx + travel(mx, scale),
                        !.dy = fs[k].dy - travel(my, scale)]
     ELSE fs[k]]

\* The view after a pan by the mouse travel (mx, my).
panned(v, mx, my) ==
  [v EXCEPT !.cx = v.cx - travel(mx, v.scale),
            !.cy = v.cy + travel(my, v.scale)]

\* dx, dy, cx and cy stay within MaxDrag units of 0.
withinDrag(n) == Abs(n) <= MaxDrag * Unit

handleMouseMove(screenX, screenY, mx, my) ==
  /\ UNCHANGED engineVars
  /\ IF ~dragRef.dragging
     THEN /\ tangentMode
          /\ tangentInfo' =
               computeTangent(functions, view, magnetMode, screenX, screenY)
          /\ UNCHANGED <<listVars, magnetMode, tangentMode, pinnedTangents,
                         dragRef, view>>
     ELSE IF dragRef.mode = "graph"
     THEN /\ \A k \in 1..Len(functions) :
               k - 1 = dragRef.graphIndex =>
                 /\ withinDrag(functions[k].dx + travel(mx, view.scale))
                 /\ withinDrag(functions[k].dy - travel(my, view.scale))
          /\ functions' = dragged(functions, dragRef.graphIndex, mx, my, view.scale)
          /\ UNCHANGED <<selectedIndex, clipboard, editingIndex, editingExpr,
                         tangentVars, view>>
     ELSE /\ withinDrag(panned(view, mx, my).cx)
          /\ withinDrag(panned(view, mx, my).cy)
          /\ view' = panned(view, mx, my)
          /\ UNCHANGED <<listVars, tangentVars>>

\* Where applyMagnetSnap may leave the entry (dx, dy).
SnapPlaces == {<<Unit, 0>>}

\* applyMagnetSnap: with the magnet on, at the end of a drag of an entry
\* that is still in the list, the entry is moved so that an extremum or a
\* root lands on whole coordinates.  Which candidate wins depends on squared
\* distances below the grid, so every place of SnapPlaces may be the
\* outcome, and so may the entry as it is (no candidate).
snapsOnRelease ==
  /\ dragRef.dragging
  /\ magnetMode
  /\ dragRef.mode = "graph"
  /\ dragRef.graphIndex < Len(functions)

applyMagnetSnap(fs, gi, place) ==
  [k \in 1..Len(fs) |->
     IF k - 1 = gi THEN [fs[k] EXCEPT !.dx = place[1], !.dy = place[2]]
     ELSE fs[k]]

handleMouseUp ==
  /\ \/ UNCHANGED functions
     \/ /\ snapsOnRelease
        /\ \E place \in SnapPlaces :
             functions' = applyMagnetSnap(functions, dragRef.graphIndex, place)
  /\ dragRef' = [dragRef EXCEPT !.dragging = FALSE]
  /\ UNCHANGED <<selectedIndex, clipboard, editingIndex, editingExpr,
                 magnetMode, tangentMode, tangentInfo, pinnedTangents, view,
                 engineVars>>

handleMouseLeaveCanvas ==
  /\ \/ UNCHANGED functions
     \/ /\ snapsOnRelease
        /\ \E place \in SnapPlaces :
             functions' = applyMagnetSnap(functions, dragRef.graphIndex, place)
  /\ dragRef' = [dragRef EXCEPT !.dragging = FALSE]
  /\ tangentInfo' = IF tangentMode THEN NoTangent ELSE tangentInfo
  /\ UNCHANGED <<selectedIndex, clipboard, editingIndex, editingExpr,
                 magnetMode, tangentMode, pinnedTangents, view,
                 engineVars>>

\* The OFF and ON buttons of the magnet.
setMagnetMode(on) ==
  /\ magnetMode' = on
  /\ UNCHANGED <<listVars, tangentMode, tangentInfo, pinnedTangents, dragRef,
                 view, engineVars>>

\* The OFF button of the tangent mode also drops the live tangent.
setTangentMode(on) ==
  /\ tangentMode' = on
  /\ tangentInfo' = IF on THEN tangentInfo ELSE NoTangent
  /\ UNCHANGED <<listVars, magnetMode, pinnedTangents, dragRef, view,
                 engineVars>>

\* The button that clears the pinned tangents, shown while there is one.
clearPinned ==
  /\ Len(pinnedTangents) > 0
  /\ pinnedTangents' = <<>>
  /\ UNCHANGED <<listVars, magnetMode, tangentMode, tangentInfo, dragRef,
                 view, engineVars>>

\* The remove button of the pinned tangent at index.
removePinned(index) ==
  /\ index \in 0..(Len(pinnedTangents) - 1)
  /\ pinnedTangents' =
       [k \in 1..(Len(pinnedTangents) - 1) |->
          IF k <= index THEN pinnedTangents[k] ELSE pinnedTangents[k + 1]]
  /\ UNCHANGED <<listVars, magnetMode, tangentMode, tangentInfo, dragRef,
                 view, engineVars>>

\* ------------------------------------------------ Graph: the models
\* No engine call is in progress.
EngineIdle ==
  /\ op = "none"
  /\ pc = "idle"
  /\ compiled = Handle("nan", 0, 0, 0)
  /\ xMin = 0
  /\ xMax = 0
  /\ i = 0
  /\ prevY = Null
  /\ prevDeriv = Null
  /\ roots = <<>>
  /\ extrema = <<>>
  /\ visited = 0
  /\ newtonX = 0
  /\ newtonI = 0
  /\ ret = NoRet
  /\ solution = NoSolution
  /\ equation = <<>>
  /\ variable = <<>>
  /\ lhs = <<>>
  /\ rhs = <<>>
  /\ fExpr = <<>>
  /\ fn = NoEntry
  /\ integralVals = <<>>
  /\ acc = 0

\* Where the mouse goes down on the canvas: on the curves of x and 1/x, on
\* the curve of x alone, and on neither.
Clicks == {<<550, 200>>, <<500, 250>>, <<500, 100>>}

\* The list: entries are added, edited, copied, cut, pasted, removed and
\* selected from the list and on the canvas.
InitList ==
  /\ EngineIdle
  /\ view = GraphView
  /\ InitGraph

NextList ==
  \/ \E input \in Typed : addFunction(input)
  \/ \E index \in 0..(MaxFunctions - 1) : removeFunction(index)
  \/ \E index \in 0..(MaxFunctions - 1) : clickItem(index)
  \/ ctxCopy
  \/ ctxCut
  \/ ctxPaste
  \/ ctxDeselect
  \/ \E index \in 0..(MaxFunctions - 1) : startEditing(index)
  \/ \E text \in Typed : changeEditing(text)
  \/ commitEditing
  \/ cancelEditing
  \/ \E index \in 0..(MaxFunctions - 1) : toggleIntegral(index)
  \/ \E c \in Clicks : handleMouseDown(c[1], c[2])
  \/ handleMouseUp

GraphSpec == InitList /\ [][NextList]_vars

\* The tangent: the curve of x^2 - 4 is on a canvas 2000 pixels wide, zoomed
\* out to 10 pixels per unit and panned to x = 0.1; the mouse moves, goes
\* down and up and leaves, the modes are switched and tangents are pinned
\* and removed.
Parabola == <<"x", "^", "2", "-", "4">>

TangentView ==
  [w |-> 2000, h |-> 500, scale |-> 10, cx |-> Unit \div 10, cy |-> 0]

\* Where the mouse is: on the curve at x = 0.4, and off it.
Mouse == {<<1003, 288>>, <<1000, 20>>}

\* How far the mouse travels between two events of a drag, in pixels.
Travels == {<<10, -10>>}

InitTangent ==
  /\ EngineIdle
  /\ view = TangentView
  /\ functions = <<newEntry(Parabola)>>
  /\ selectedIndex = NoIndex
  /\ clipboard = NoClipboard
  /\ editingIndex = NoIndex
  /\ editingExpr = <<>>
  /\ magnetMode = FALSE
  /\ tangentMode = FALSE
  /\ tangentInfo = NoTangent
  /\ pinnedTangents = <<>>
  /\ dragRef = NoDrag

NextTangent ==
  \/ \E on \in BOOLEAN : setMagnetMode(on)
  \/ \E on \in BOOLEAN : setTangentMode(on)
  \/ \E m \in Mouse : handleMouseDown(m[1], m[2])
  \/ \E m \in Mouse, t \in Travels : handleMouseMove(m[1], m[2], t[1], t[2])
  \/ handleMouseUp
  \/ handleMouseLeaveCanvas
  \/ clearPinned
  \/ \E index \in 0..(MaxPinned - 1) : removePinned(index)

TangentSpec == InitTangent /\ [][NextTangent]_vars

\* computeTangent on its own: tangent mode is on, the curves of x^2 - 4 and
\* x are on the canvas, shifted or not, and the mouse moves over them with
\* the magnet on or off.
Hover ==
  {<<1003, 288>>, <<1029, 200>>, <<1099, 150>>, <<1049, 200>>, <<1074, 175>>,
   <<1000, 20>>, <<977, 242>>, <<1149, 100>>}

Shifted ==
  {0, Unit \div 4, Unit \div 2, Unit, 2 * Unit, 3 * Unit, -(Unit \div 4),
   -(Unit \div 2), -Unit, -2 * Unit, -3 * Unit, 5 * Unit}

InitHover ==
  /\ EngineIdle
  /\ view = TangentView
  /\ functions \in
       {<<[newEntry(Parabola) EXCEPT !.dx = d], [newEntry(<<"x">>) EXCEPT !.dx = d]>> :
          d \in Shifted}
  /\ selectedIndex = NoIndex
  /\ clipboard = NoClipboard
  /\ editingIndex = NoIndex
  /\ editingExpr = <<>>
  /\ magnetMode \in BOOLEAN
  /\ tangentMode = TRUE
  /\ tangentInfo = NoTangent
  /\ pinnedTangents = <<>>
  /\ dragRef = NoDrag

NextHover ==
  \E m \in Hover, t \in Travels : handleMouseMove(m[1], m[2], t[1], t[2])

HoverSpec == InitHover /\ [][NextHover]_vars

\* ------------------------------------------------------------ claims
\* An evaluation that gave a finite number.
Usable(v) == v[1] = "num"

\* The k-th sample point of the scan in progress.
sampleX(k) == xMin + k * sampleDx(xMin, xMax)

Scanning == op \in {"findRoots", "findExtrema"}

\* C1: findExtrema on f(x) = x^2 over [-10, 10] returns exactly one extremum,
\* a 'min', at x ~ 0 with y ~ 0 (within one sample spacing).
C1_ParabolaHasOneMin ==
  (/\ op = "findExtrema"
   /\ pc = "done"
   /\ compiled = Handle("sq", 0, 32, 0)
   /\ xMin = -10 * Unit
   /\ xMax = 10 * Unit)
  => /\ Len(extrema) = 1
     /\ extrema[1].type = "min"
     /\ Abs(extrema[1].x) <= sampleDx(xMin, xMax)
     /\ Abs(extrema[1].y) <= sampleDx(xMin, xMax)

\* C2: at every moment of a scan or a solve, any two distinct collected
\* roots differ by at least the deduplication tolerance 1e-8.
C2_NoTwoRootsWithinTolerance ==
  \A j, k \in 1..Len(roots) :
    j # k => Abs(roots[j] - roots[k]) >= dedupTol

\* A start point has just returned a root that was already collected.
C2_Witness ==
  /\ op = "solveEquation"
  /\ pc = "loop"
  /\ i >= 3
  /\ ret.r # Null
  /\ Len(roots) = 1
  /\ Abs(roots[1] - ret.r[2]) < dedupTol

\* f is zero at x, or passes through zero between x and the next grid value
\* without a jump (adjacent values less than 0.5 apart).
ZeroCrossingAt(f, x) ==
  LET y0 == evaluate(f, x)
      y1 == evaluate(f, x + 1)
  IN  /\ Usable(y0)
      /\ \/ y0[2] = 0
         \/ /\ Usable(y1)
            /\ ProductNegative(y0[2], y1[2])
            /\ Abs(y1[2] - y0[2]) < Unit \div 2

\* C3: every x that findRoots reports is a point where f is numerically
\* zero: f has a zero within the tolerance 1e-8 of x.
C3_ReportedRootsAreZeros ==
  op = "findRoots" =>
    \A k \in 1..Len(roots) :
      \E x \in (roots[k] - dedupTol)..(roots[k] + dedupTol) :
        ZeroCrossingAt(compiled, x)

\* C4: every non-null value r returned by newtonMethod has |f(r)| < 1e-6,
\* whichever return statement produced it.
C4_NewtonReturnsNumericalRoot ==
  (op = "solveEquation" /\ ret.r # Null) =>
    LET y == evaluate(compiled, ret.r[2])
    IN  Usable(y) /\ Abs(y[2]) < finalTol

\* f is unusable at every point findRoots evaluates / findExtrema evaluates.
UnusableOnSamples ==
  \A k \in 0..samples : ~Usable(evaluate(compiled, sampleX(k)))

UnusableOnDerivativeSamples ==
  LET h == sampleDx(xMin, xMax) \div hFactor
  IN  \A k \in 0..samples :
        /\ ~Usable(evaluate(compiled, sampleX(k) - h))
        /\ ~Usable(evaluate(compiled, sampleX(k) + h))

UnusableAtStart(x0) ==
  /\ ~Usable(evaluate(compiled, x0))
  /\ ~Usable(evaluate(compiled, x0 + newtonH))

\* C5: when f throws or is non-finite wherever it is evaluated, findRoots and
\* findExtrema return empty sequences, newtonMethod returns null, and
\* solveEquation reports no roots with the 'no solution' error.
C5_UnusableEverywhereGivesNothing ==
  /\ (op = "findRoots" /\ pc = "done" /\ UnusableOnSamples) => roots = <<>>
  /\ (op = "findExtrema" /\ pc = "done" /\ UnusableOnDerivativeSamples)
       => extrema = <<>>
  /\ (op = "solveEquation" /\ ret.exit # "none" /\ UnusableAtStart(ret.x0))
       => ret.r = Null
  /\ (/\ op = "solveEquation"
      /\ pc = "done"
      /\ compiled.kind # "unparsable"
      /\ \A k \in 1..Len(startPoints) : UnusableAtStart(startPoints[k]))
       => solution = [roots |-> <<>>, error |-> "noSolution"]

\* solveEquation has returned for an expression that is non-finite at every
\* start point.
C5_Witness ==
  /\ op = "solveEquation"
  /\ pc = "done"
  /\ compiled.kind = "nan"
  /\ ret.exit = "nonFinite"
  /\ solution.error = "noSolution"

\* The bracket ending at sample k of findRoots: both samples usable with a
\* sign change between them.
BracketAt(k) ==
  LET y0 == evaluate(compiled, sampleX(k - 1))
      y1 == evaluate(compiled, sampleX(k))
  IN  Usable(y0) /\ Usable(y1) /\ ProductNegative(y0[2], y1[2])

BracketRoot(k) == bisect(compiled, sampleX(k - 1), sampleX(k), 0)

\* The bracket ending at sample k is refined without an exception, and so
\* was the one before it (which would have reset prevY).
CleanBracketAt(k) ==
  /\ BracketAt(k)
  /\ BracketRoot(k) # Throw
  /\ ~(k >= 2 /\ BracketAt(k - 1) /\ BracketRoot(k - 1) = Throw)

RootReported(r) == \E j \in 1..Len(roots) : Abs(roots[j] - r) < dedupTol

\* The derivative estimate findExtrema makes at sample k, or Null.
DerivAt(k) ==
  LET h == sampleDx(xMin, xMax) \div hFactor
      fl == evaluate(compiled, sampleX(k) - h)
      fr == evaluate(compiled, sampleX(k) + h)
  IN  IF Usable(fl) /\ Usable(fr) THEN derivative(fl[2], fr[2], h) ELSE Null

RefinedAt(k) ==
  refine(compiled, sampleX(k - 1), sampleX(k),
         sampleDx(xMin, xMax) \div hFactor, 0)

ExtremumReported(e, type) ==
  \E j \in 1..Len(extrema) :
    extrema[j] = [x |-> e[2], y |-> e[3], type |-> type]

\* C6: a failed evaluation never ends a scan: every sample index up to the
\* current one has been visited, a scan returns only after all 501 samples,
\* and each sign change between consecutive usable samples whose own
\* refinement succeeds is reported, whatever failed before it.
C6_FailureNeverEndsScan ==
  Scanning =>
    /\ visited = i
    /\ pc = "done" => i = samples + 1
    /\ (pc = "done" /\ op = "findRoots") =>
         \A k \in 1..samples :
           CleanBracketAt(k) => RootReported(BracketRoot(k)[2])
    /\ (pc = "done" /\ op = "findExtrema") =>
         \A k \in 1..samples :
           LET d0 == DerivAt(k - 1)
               d1 == DerivAt(k)
           IN  (d0 # Null /\ d1 # Null)
                 => /\ (Positive(d0) /\ Negative(d1) /\ RefinedAt(k) # Null)
                         => ExtremumReported(RefinedAt(k), "max")
                    /\ (Negative(d0) /\ Positive(d1) /\ RefinedAt(k) # Null)
                         => ExtremumReported(RefinedAt(k), "min")

\* findRoots has returned; the refinement of one bracket threw, and a sign
\* change at a later sample was reported.
C6_Witness ==
  /\ op = "findRoots"
  /\ pc = "done"
  /\ \E k \in 1..samples :
       /\ BracketAt(k)
       /\ BracketRoot(k) = Throw
       /\ \E k2 \in (k + 2)..samples :
            CleanBracketAt(k2) /\ RootReported(BracketRoot(k2)[2])

\* C7: for xMin <= xMax the roots findRoots has collected are in increasing
\* order of x.
C7_RootsIncreasing ==
  (op = "findRoots" /\ xMin <= xMax) =>
    \A j, k \in 1..Len(roots) : j < k => roots[j] < roots[k]

\* findRoots has returned two or more roots.
C7_Witness ==
  /\ op = "findRoots"
  /\ pc = "done"
  /\ xMin < xMax
  /\ Len(roots) >= 2

\* C8: findRoots on a zero-width interval returns an empty sequence.
C8_ZeroWidthIsEmpty ==
  (op = "findRoots" /\ pc = "done" /\ xMin = xMax) => roots = <<>>

\* The number a formatted root stands for.
ValueOf(s) ==
  CASE s[1] = "0"    -> 0
    [] s[1] = "int"  -> s[2] * Unit
    [] s[1] = "frac" -> s[4]
    [] s[1] = "dec"  -> s[2]

\* C9: the roots array solveEquation returns is in ascending numeric order.
C9_SolutionAscending ==
  (op = "solveEquation" /\ pc = "done") =>
    \A j, k \in 1..Len(solution.roots) :
      j < k => ValueOf(solution.roots[j]) <= ValueOf(solution.roots[k])

\* solveEquation has returned roots that were collected out of order.
C9_Witness ==
  /\ op = "solveEquation"
  /\ pc = "done"
  /\ Len(solution.roots) >= 2
  /\ roots[1] > roots[2]

\* C10: a returned Solution has an error exactly when its roots are empty,
\* and for a compiled expression with no root found the error is the
\* 'no solution found' one.
C10_ErrorIffNoRoots ==
  (op = "solveEquation" /\ pc = "done") =>
    /\ (solution.error # "none") <=> (solution.roots = <<>>)
    /\ (compiled.kind # "unparsable" /\ roots = <<>>)
         => solution.error = "noSolution"
    /\ solution.error \in {"none", "noSolution", "parse"}

\* solveEquation has returned 'no solution found' after every start point
\* of a compiled expression gave null.
C10_Witness ==
  /\ op = "solveEquation"
  /\ pc = "done"
  /\ compiled.kind # "unparsable"
  /\ visited = Len(startPoints)
  /\ solution = [roots |-> <<>>, error |-> "noSolution"]

Solving == op = "solveEquation"

\* C11: solveEquation returns the 'cannot parse' error, with empty roots,
\* exactly when compiling (lhs) - (rhs) fails; once a seed has been tried,
\* whatever its evaluation did, the error is never the parse error.
C11_ParseErrorIffCompileFails ==
  Solving =>
    /\ fExpr = fExprOf(lhs, rhs)
    /\ pc = "done" =>
         /\ (solution.error = "parse") <=> ~compiles(fExpr)
         /\ solution.error = "parse" => solution.roots = <<>>
    /\ visited > 0 => solution.error # "parse"

\* solveEquation has returned for a text that compiles and whose evaluation
\* threw at the last seed: the error is 'no solution found'.
C11_Witness ==
  /\ Solving
  /\ pc = "done"
  /\ compiles(fExpr)
  /\ ret.exit = "throw"
  /\ solution.error = "noSolution"

\* The position of the first ch in s.
FirstIndex(s, ch) ==
  CHOOSE p \in 1..Len(s) : s[p] = ch /\ \A k \in 1..(p - 1) : s[k] # ch

\* C12: lhs is the stripped text before its first '=' and rhs everything
\* after that '='; a text without '=' has rhs "0" and is solved as the text
\* followed by "=0" is.
C12_SplitOnFirstEquals ==
  Solving =>
    LET s == stripSpaces(equation)
    IN  IF \E k \in 1..Len(s) : s[k] = "="
        THEN /\ lhs = SubSeq(s, 1, FirstIndex(s, "=") - 1)
             /\ rhs = SubSeq(s, FirstIndex(s, "=") + 1, Len(s))
        ELSE /\ lhs = s
             /\ rhs = <<"0">>
             /\ sidesOf(s \o <<"=", "0">>) = <<lhs, rhs>>

\* s[p..q] is a maximal run of letters of s.
IsRun(s, p, q) ==
  /\ p <= q
  /\ \A k \in p..q : s[k] \in Letters
  /\ p = 1 \/ s[p - 1] \notin Letters
  /\ q = Len(s) \/ s[q + 1] \notin Letters

\* C13: the variable bound is the first identifier of the stripped text, in
\* scan order, that is not one of the 17 known names, and 'x' when there is
\* no such identifier.
C13_FirstUnknownIdentifier ==
  Solving =>
    LET s == stripSpaces(equation)
        known(p, q) == SubSeq(s, p, q) \in mathFunctions
    IN  /\ Cardinality(mathFunctions) = 17
        /\ \/ \E p \in 1..Len(s) : \E q \in p..Len(s) :
                /\ IsRun(s, p, q)
                /\ ~known(p, q)
                /\ variable = SubSeq(s, p, q)
                /\ \A p2 \in 1..(p - 1) : \A q2 \in p2..Len(s) :
                     IsRun(s, p2, q2) => known(p2, q2)
           \/ /\ \A p \in 1..Len(s) : \A q \in p..Len(s) :
                   IsRun(s, p, q) => known(p, q)
              /\ variable = <<"x">>

\* A text whose first identifier is a known name and whose second is bound.
C13_Witness ==
  /\ Solving
  /\ Len(allSymbols(stripSpaces(equation))) >= 2
  /\ allSymbols(stripSpaces(equation))[1] \in mathFunctions
  /\ variable = allSymbols(stripSpaces(equation))[2]
  /\ variable # <<"x">>

\* p and q have no common divisor.
Coprime(p, q) == \A d \in 2..q : ~(p % d = 0 /\ q % d = 0)

\* Some fraction with a denominator 2 .. maxDenom equals r.
IsFraction(r) == \E q \in 2..maxDenom : ((r % Unit) * q) % Unit = 0

\* r is printed as s by the first rule that applies.
FirstRule(r, s) ==
  IF Abs(r) < fmtZeroTol THEN s = <<"0">>
  ELSE IF r % Unit = 0 THEN s = <<"int", r \div Unit>>
  ELSE IF IsFraction(r)
       THEN /\ s[1] = "frac"
            /\ s[3] \in 2..maxDenom
            /\ s[2] * Unit = r * s[3]
            /\ Coprime(Abs(s[2]), s[3])
            /\ s[4] = r
  ELSE s = <<"dec", r>>

C15_AnchorIsZero ==
  (/\ op = "integral"
   /\ pc = "done"
   /\ zeroPxIdx(view) \in 0..totalPx(view))
  => integralVals[zeroPxIdx(view) + 1] = Num(0)

\* A call of a scan or of solveEquation is in progress.
Running ==
  /\ op \in {"findRoots", "findExtrema", "solveEquation"}
  /\ pc \in {"loop", "newton"}

\* The steps of a call of solveEquation in progress. (Those of a scan are
\* its Step for i <= samples and its Return for i > samples.)
CallStep ==
  \/ newtonMethodCall
  \/ newtonMethodStep
  \/ newtonMethodFinal
  \/ solveEquationReturn

\* An upper bound on the number of steps a call in progress still takes.
Measure ==
  IF ~Running THEN 0
  ELSE IF Scanning THEN samples + 2 - i
  ELSE IF pc = "loop"
  THEN (Len(startPoints) + 1 - i) * (maxIter + 2) + 1
  ELSE (Len(startPoints) + 1 - i) * (maxIter + 2) - newtonI

\* What a call in progress has used so far, and a finished one in all.
WithinBudget ==
  /\ Measure >= 0
  /\ (Running /\ op = "solveEquation") => ENABLED CallStep
  /\ (Scanning /\ pc = "loop") => (i \in 0..(samples + 1) /\ visited = i)
  /\ (Scanning /\ pc = "done") => visited = samples + 1
  /\ (op = "findRoots" /\ pc = "done") =>
       \A k \in 1..samples :
         BracketAt(k) =>
           bisectPasses(compiled, sampleX(k - 1), sampleX(k), 0)
             \in 1..bisections
  /\ (op = "findExtrema" /\ pc = "done") =>
       \A k \in 1..samples :
         LET d0 == DerivAt(k - 1)
             d1 == DerivAt(k)
         IN  (/\ d0 # Null
              /\ d1 # Null
              /\ \/ Positive(d0) /\ Negative(d1)
                 \/ Negative(d0) /\ Positive(d1))
               => refinePasses(compiled, sampleX(k - 1), sampleX(k),
                               sampleDx(xMin, xMax) \div hFactor, 0)
                    \in 1..bisections
  /\ (op = "solveEquation" /\ pc = "newton") =>
       /\ i \in 1..Len(startPoints)
       /\ visited = i - 1
       /\ newtonI \in 0..maxIter
       /\ ret.iters \in 0..maxIter
  /\ (op = "solveEquation" /\ pc = "loop") =>
       /\ i \in 1..(Len(startPoints) + 1)
       /\ visited = i - 1
       /\ i > 1 => (ret.x0 = startPoints[i - 1] /\ ret.iters \in 1..maxIter)
  /\ (op = "solveEquation" /\ pc = "done" /\ compiles(fExpr)) =>
       (visited = Len(startPoints) /\ Len(startPoints) = 21)

\* C16: every call of findRoots, findExtrema, refine, newtonMethod and
\* solveEquation terminates: each step of a call in progress lowers a
\* measure that is never negative, and solveEquation in progress can
\* always take a step; a scan visits 501 samples with 1 to 50 bisection passes for each
\* bracket, newtonMethod makes at most maxIter passes, and solveEquation
\* (once the expression compiles) runs newtonMethod once for each of the
\* 21 seeds, in their order.
C16_CallsTerminate ==
  /\ []WithinBudget
  /\ [][Running => Measure' < Measure]_vars

\* solveEquation has returned after newtonMethod ran for every seed, the
\* last of them through all maxIter passes and the final check.
C16_Witness ==
  /\ op = "solveEquation"
  /\ pc = "done"
  /\ visited = Len(startPoints)
  /\ ret.iters = maxIter
  /\ ret.exit \in {"final", "finalNull"}

\* f has a zero at an end of [a, b] or opposite signs at its two ends.
Crossing(f, a, b) ==
  LET fa == evaluate(f, a)
      fb == evaluate(f, b)
  IN  /\ Usable(fa)
      /\ Usable(fb)
      /\ (fa[2] = 0 \/ fb[2] = 0 \/ ProductNegative(fa[2], fb[2]))

\* The derivative estimate with step h at x, or Null.
DerivOf(f, x, h) ==
  LET fl == evaluate(f, x - h)
      fr == evaluate(f, x + h)
  IN  IF Usable(fl) /\ Usable(fr) THEN derivative(fl[2], fr[2], h) ELSE Null

\* The same for the derivative estimate of f.
DerivCrossing(f, a, b, h) ==
  LET da == DerivOf(f, a, h)
      db == DerivOf(f, b, h)
  IN  /\ da # Null
      /\ db # Null
      /\ (da = Num(0) \/ db = Num(0) \/ DerivProductNegative(da, db))

\* Every interval the bisection loop of findRoots reaches from [a, b]
\* has a crossing of f.
RECURSIVE bisectKeepsCrossing(_, _, _, _)
bisectKeepsCrossing(f, a, b, j) ==
  IF j = bisections THEN TRUE
  ELSE
    LET n == bisectStep(f, a, b)
    IN  IF n[1] # "next" THEN TRUE
        ELSE /\ Crossing(f, n[2], n[3])
             /\ bisectKeepsCrossing(f, n[2], n[3], j + 1)

\* Every interval the loop of refine reaches from [a, b] has a crossing of
\* the derivative estimate.
RECURSIVE refineKeepsCrossing(_, _, _, _, _)
refineKeepsCrossing(f, a, b, h, j) ==
  IF j = bisections THEN TRUE
  ELSE
    LET n == refineStep(f, a, b, h)
    IN  IF n = Null THEN TRUE
        ELSE /\ DerivCrossing(f, n[2], n[3], h)
             /\ refineKeepsCrossing(f, n[2], n[3], h, j + 1)

\* The bracket ending at sample k of findExtrema: derivative estimates of
\* opposite signs at samples k - 1 and k.
DerivBracketAt(k) ==
  LET d0 == DerivAt(k - 1)
      d1 == DerivAt(k)
  IN  d0 # Null /\ d1 # Null /\ DerivProductNegative(d0, d1)

\* C17: the bisection refiner converges to the crossing: for every bracket
\* of a scan that has returned, the interval [a, b] after each step of the
\* bisection (on f in findRoots, on f' in refine) still contains a zero or a
\* sign change of the target function, also after a midpoint that
\* evaluates to exactly 0.
C17_IntervalKeepsCrossing ==
  /\ (op = "findRoots" /\ pc = "done" /\ xMin < xMax) =>
       \A k \in 1..samples :
         BracketAt(k) =>
           bisectKeepsCrossing(compiled, sampleX(k - 1), sampleX(k), 0)
  /\ (op = "findExtrema" /\ pc = "done" /\ xMin < xMax) =>
       \A k \in 1..samples :
         DerivBracketAt(k) =>
           refineKeepsCrossing(compiled, sampleX(k - 1), sampleX(k),
                               sampleDx(xMin, xMax) \div hFactor, 0)

\* Every interval the bisection loop of findRoots reaches from [a, b] lies
\* within the one before it.
RECURSIVE bisectNested(_, _, _, _)
bisectNested(f, a, b, j) ==
  IF j = bisections THEN TRUE
  ELSE
    LET n == bisectStep(f, a, b)
    IN  IF n[1] # "next" THEN TRUE
        ELSE /\ a <= n[2]
             /\ n[2] <= n[3]
             /\ n[3] <= b
             /\ bisectNested(f, n[2], n[3], j + 1)

\* The same for the loop of refine; and refine called on each of these
\* intervals, however narrow, returns null or a point within it.
RECURSIVE refineNested(_, _, _, _, _)
refineNested(f, a, b, h, j) ==
  LET e == refine(f, a, b, h, 0)
  IN  /\ e # Null => (a <= e[2] /\ e[2] <= b)
      /\ IF j = bisections THEN TRUE
         ELSE
           LET n == refineStep(f, a, b, h)
           IN  IF n = Null THEN TRUE
               ELSE /\ a <= n[2]
                    /\ n[2] <= n[3]
                    /\ n[3] <= b
                    /\ refineNested(f, n[2], n[3], h, j + 1)

\* C18: for every bracket [a, b] with a <= b, however narrow, the value the
\* bisection returns (the loop inside findRoots, and refine) lies within
\* [a, b], and every intermediate interval lies within the one before it.
C18_RefinedWithinBracket ==
  /\ (op = "findRoots" /\ pc = "done" /\ xMin <= xMax) =>
       \A k \in 1..samples :
         BracketAt(k) =>
           /\ bisectNested(compiled, sampleX(k - 1), sampleX(k), 0)
           /\ BracketRoot(k) # Throw =>
                (/\ sampleX(k - 1) <= BracketRoot(k)[2]
                 /\ BracketRoot(k)[2] <= sampleX(k))
  /\ (op = "findExtrema" /\ pc = "done" /\ xMin <= xMax) =>
       \A k \in 1..samples :
         DerivBracketAt(k) =>
           refineNested(compiled, sampleX(k - 1), sampleX(k),
                        sampleDx(xMin, xMax) \div hFactor, 0)

\* findRoots has returned the refinement of a bracket one grid step wide,
\* the narrowest there is.
C18_Witness ==
  /\ op = "findRoots"
  /\ pc = "done"
  /\ sampleDx(xMin, xMax) = 1
  /\ \E k \in 1..samples :
       /\ BracketAt(k)
       /\ BracketRoot(k) # Throw
       /\ RootReported(BracketRoot(k)[2])

\* Sample k of the scan in progress evaluates to a finite value.
UsableAt(k) == Usable(evaluate(compiled, sampleX(k)))

\* C19: in findRoots a sample that throws or is non-finite resets the
\* previous value: while the scan runs prevY is null after such a sample and
\* is otherwise the finite value of the sample just before the current one,
\* and every root returned is a sample with |y| < 1e-12 or the refinement of
\* a bracket between two consecutive samples that both have finite values.
C19_BracketFromConsecutiveUsable ==
  op = "findRoots" =>
    /\ (pc = "loop" /\ i >= 1 /\ ~UsableAt(i - 1)) => prevY = Null
    /\ prevY # Null =>
         (/\ i >= 1
          /\ Usable(prevY)
          /\ prevY = evaluate(compiled, sampleX(i - 1)))
    /\ pc = "done" =>
         \A j \in 1..Len(roots) :
           \E k \in 0..samples :
             \/ /\ UsableAt(k)
                /\ Abs(evaluate(compiled, sampleX(k))[2]) < zeroTol
                /\ roots[j] = sampleX(k)
             \/ /\ k >= 1
                /\ BracketAt(k)
                /\ BracketRoot(k) = Num(roots[j])

\* findRoots has returned; an unusable sample lies between two usable ones
\* of opposite signs, and no root between those two was returned.
C19_Witness ==
  /\ op = "findRoots"
  /\ pc = "done"
  /\ xMin < xMax
  /\ \E k \in 1..(samples - 1) :
       /\ ~UsableAt(k)
       /\ UsableAt(k - 1)
       /\ UsableAt(k + 1)
       /\ ProductNegative(evaluate(compiled, sampleX(k - 1))[2],
                          evaluate(compiled, sampleX(k + 1))[2])
       /\ \A j \in 1..Len(roots) :
            roots[j] < sampleX(k - 1) \/ roots[j] > sampleX(k + 1)

\* C20: for every sample x of findRoots at which f has a finite value with
\* |f(x)| < 1e-12, the result contains x or a root within 1e-8 of x,
\* whatever happened for the bracket ending at that sample.
C20_NearZeroSampleReported ==
  (op = "findRoots" /\ pc = "done") =>
    \A k \in 0..samples :
      (/\ UsableAt(k)
       /\ Abs(evaluate(compiled, sampleX(k))[2]) < zeroTol)
        => RootReported(sampleX(k))

\* The step of findExtrema at sample i leaves extrema as it is or appends one
\* extremum, a 'max' after derivative estimates positive at sample i - 1 and
\* negative at sample i, a 'min' after negative and positive.
OneExtremumForItsPair ==
  \/ extrema' = extrema
  \/ /\ Len(extrema') = Len(extrema) + 1
     /\ SubSeq(extrema', 1, Len(extrema)) = extrema
     /\ i >= 1
     /\ LET e == extrema'[Len(extrema')]
            d0 == DerivAt(i - 1)
            d1 == DerivAt(i)
        IN  /\ d0 # Null
            /\ d1 # Null
            /\ prevDeriv = d0
            /\ \/ e.type = "max" /\ Positive(d0) /\ Negative(d1)
               \/ e.type = "min" /\ Negative(d0) /\ Positive(d1)

\* C21: findExtrema reports a 'max' only for two consecutive usable samples
\* whose derivative estimates are positive then negative and a 'min' only
\* for negative then positive; each such pair yields at most one extremum
\* and no extremum is reported without such a pair.
C21_ExtremumOnlyFromSignChange ==
  [][(op = "findExtrema" /\ pc = "loop") => OneExtremumForItsPair]_vars

\* findExtrema has returned a 'max' found between two samples.
C21_Witness ==
  /\ op = "findExtrema"
  /\ pc = "done"
  /\ \E j \in 1..Len(extrema), k \in 1..samples :
       /\ extrema[j].type = "max"
       /\ Positive(DerivAt(k - 1))
       /\ Negative(DerivAt(k))
       /\ RefinedAt(k) # Null
       /\ extrema[j].x = RefinedAt(k)[2]

\* newtonMethod is about to make a pass of its loop at the iterate newtonX.
NewtonPass == op = "solveEquation" /\ pc = "newton" /\ newtonI < maxIter

\* What that pass does: a flat difference quotient at a value not below tol
\* and a next iterate that is not a number both return null, and a value
\* below tol in size is returned as exactly 0.
PassReturns ==
  LET fx == evaluate(compiled, newtonX)
      fxh == evaluate(compiled, newtonX + newtonH)
  IN  /\ (/\ Usable(fx)
          /\ Usable(fxh)
          /\ Abs(fx[2]) >= tol
          /\ fxh[2] = fx[2])
           => (pc' = "loop" /\ ret'.r = Null)
      /\ (Usable(fx) /\ Abs(fx[2]) >= tol /\ fxh = NaN)
           => (pc' = "loop" /\ ret'.r = Null)
      /\ (pc' = "loop" /\ ret'.r # Null /\ Abs(ret'.r[2]) < tol)
           => ret'.r = Num(0)

\* C23: newtonMethod returns null at an iterate where |f(x)| >= tol and the
\* derivative estimate is below 1e-15 in size, returns null whenever the next
\* iterate is not finite, and a value it returns by convergence with
\* |x| < tol is exactly 0.
C23_NewtonNullAndSnap ==
  [][NewtonPass => PassReturns]_vars

\* newtonMethod has returned null from a pass at an iterate where f is not
\* below tol and the difference quotient is flat.
C23_Witness ==
  /\ op = "solveEquation"
  /\ pc = "loop"
  /\ i > 1
  /\ ret.iters <= maxIter
  /\ ret.exit = "flat"
  /\ ret.r = Null
  /\ Usable(evaluate(compiled, newtonX))
  /\ Abs(evaluate(compiled, newtonX)[2]) >= tol
  /\ evaluate(compiled, newtonX + newtonH) = evaluate(compiled, newtonX)

\* The loop of newtonMethod has made all its passes without a return.
NewtonExhausted == op = "solveEquation" /\ pc = "newton" /\ newtonI >= maxIter

\* C24: when newtonMethod completes maxIter passes without an earlier
\* return, it returns the final x if |f(x)| < 1e-6 and null otherwise, also
\* when that last evaluation throws or does not give a finite number.
C24_FinalCheck ==
  [][NewtonExhausted =>
       LET fx == evaluate(compiled, newtonX)
       IN  /\ pc' = "loop"
           /\ ret'.r = IF Usable(fx) /\ Abs(fx[2]) < finalTol
                       THEN Num(newtonX) ELSE Null]_vars

\* newtonMethod has returned the final x of maxIter passes, accepted by the
\* check although |f(x)| is not below tol.
C24_Witness ==
  /\ op = "solveEquation"
  /\ pc = "loop"
  /\ newtonI = maxIter
  /\ ret.iters = maxIter
  /\ ret.r = Num(newtonX)
  /\ Abs(evaluate(compiled, newtonX)[2]) >= tol
  /\ Abs(evaluate(compiled, newtonX)[2]) < finalTol

\* Sample idx of the integral curve has a value and comes right after a
\* sample without one, walking away from the start of its side.
AfterGap(idx) ==
  /\ integralVals[idx + 1] # Null
  /\ \/ /\ idx > startRight(view)
        /\ integralVals[idx] = Null
     \/ /\ idx < startLeft(view)
        /\ integralVals[idx + 2] = Null

\* C25: in the antiderivative walk an unusable sample gets no value, and
\* the value of the next usable sample on that side carries nothing over
\* from before the gap: the accumulation starts again from 0.
C25_NoCarryOverAcrossGap ==
  (op = "integral" /\ pc = "done") =>
    \A idx \in 0..totalPx(view) :
      LET xVal == toWorldX(view, idx * pxStep) - fn.dx
      IN  /\ (~inDomain(xVal, fn) \/ ~Usable(evaluate(compiled, xVal)))
               => integralVals[idx + 1] = Null
          /\ AfterGap(idx) => integralVals[idx + 1] = Num(0)

\* The selection is null or the index of an entry.
SelectionValid ==
  selectedIndex = NoIndex \/ selectedIndex \in 0..(Len(functions) - 1)

\* What the claim says of the selection after removeFunction(index).
SelectionFollows(index) ==
  IF selectedIndex = NoIndex \/ selectedIndex = index
  THEN selectedIndex' = NoIndex
  ELSE /\ selectedIndex' =
            IF selectedIndex > index THEN selectedIndex - 1 ELSE selectedIndex
       /\ selectedIndex' \in 0..(Len(functions') - 1)
       /\ functions'[selectedIndex' + 1] = functions[selectedIndex + 1]

RemoveFollows ==
  /\ \A index \in 0..(MaxFunctions - 1) :
       removeFunction(index) => SelectionFollows(index)
  /\ ctxCut => selectedIndex' = NoIndex

\* C29: whatever is added, removed, cut, pasted, selected and deselected,
\* selectedIndex is null or the index of an entry of the list; and
\* removeFunction(index) leaves the selection on the entry it was on (one
\* index lower when that entry came after index), or null when the selected
\* entry is the one removed.
C29_SelectionStaysValid == []SelectionValid /\ [][RemoveFollows]_vars

\* The entry hit on the canvas at index 1 is selected at index 0 after the
\* entry before it was removed.
C29_Witness ==
  /\ Len(functions) = 1
  /\ selectedIndex = 0
  /\ dragRef.graphIndex = 1

\* C30: every entry of the list with showIntegral = true has an expression
\* that canIntegrate accepts, whatever is toggled, edited, copied and pasted.
C30_IntegralOnlyWhereAccepted ==
  \A k \in 1..Len(functions) :
    functions[k].showIntegral => canIntegrate(compileExpr(functions[k].expr))

\* ------------------------------------------------ Graph: the draw path
\* draw, for the selected entry, whose offset and domain are held in fn and
\* whose compiled expression in compiled: the interval it passes to findExtrema (extremaXMin, extremaXMax) and to findRoots
\* (rootsXMin, rootsXMax), the same two expressions.
scanXMin(e, v) ==
  IF e.domainMin # Null THEN e.domainMin[2] ELSE toWorldX(v, 0) - e.dx

scanXMax(e, v) ==
  IF e.domainMax # Null THEN e.domainMax[2] ELSE toWorldX(v, v.w) - e.dx

\* The marks part of draw for the entry e in the view v: both scans run on
\* the interval above.
drawMarks(e, v) ==
  /\ op' = "draw"
  /\ xMin' = scanXMin(e, v)
  /\ xMax' = scanXMax(e, v)
  /\ extrema' = findExtrema(compiled, scanXMin(e, v), scanXMax(e, v))
  /\ roots' = findRoots(compiled, scanXMin(e, v), scanXMax(e, v))
  /\ UNCHANGED <<pc, compiled, i, prevY, prevDeriv, visited, newtonX, newtonI,
                 ret, solution, textVars, integralVals, acc, selectedIndex,
                 clipboard, editingIndex, editingExpr, tangentVars>>

\* The values typed into the min and max inputs of the domain; Null is the
\* empty input.
DomainInputs == {Null, Num(-150 * Unit), Num(-Unit), Num(Unit), Num(3 * Unit)}

\* The centres the view is panned to.
Centres == {Unit \div 10, 2 * Unit + Unit \div 10, -5 * Unit + Unit \div 10}

\* onChange of the min input of the domain; the new state is drawn.
setDomainMin(value) ==
  /\ fn' = [fn EXCEPT !.domainMin = value]
  /\ view' = view
  /\ functions' = functions
  /\ drawMarks(fn', view')

\* onChange of the max input of the domain; the new state is drawn.
setDomainMax(value) ==
  /\ fn' = [fn EXCEPT !.domainMax = value]
  /\ view' = view
  /\ functions' = functions
  /\ drawMarks(fn', view')

\* A pan of the view to the centre cx; the new state is drawn.
panTo(cx) ==
  /\ view' = [view EXCEPT !.cx = cx]
  /\ fn' = fn
  /\ functions' = functions
  /\ drawMarks(fn', view')

\* A drag of the entry to the offset dx; the new state is drawn.
dragTo(dx) ==
  /\ functions' = [functions EXCEPT ![1].dx = dx]
  /\ fn' = [fn EXCEPT !.dx = dx]
  /\ view' = view
  /\ drawMarks(fn', view')

\* The component with the entry x^2 - 4 selected and drawn once.
InitDraw ==
  /\ functions = <<newEntry(Parabola)>>
  /\ selectedIndex = 0
  /\ clipboard = NoClipboard
  /\ editingIndex = NoIndex
  /\ editingExpr = <<>>
  /\ magnetMode = FALSE
  /\ tangentMode = FALSE
  /\ tangentInfo = NoTangent
  /\ pinnedTangents = <<>>
  /\ dragRef = NoDrag
  /\ op = "draw"
  /\ pc = "idle"
  /\ compiled = compileExpr(Parabola)
  /\ view = TangentView
  /\ fn = NoEntry
  /\ xMin = scanXMin(NoEntry, TangentView)
  /\ xMax = scanXMax(NoEntry, TangentView)
  /\ extrema = findExtrema(compileExpr(Parabola), scanXMin(NoEntry, TangentView),
                           scanXMax(NoEntry, TangentView))
  /\ roots = findRoots(compileExpr(Parabola), scanXMin(NoEntry, TangentView),
                       scanXMax(NoEntry, TangentView))
  /\ i = 0
  /\ prevY = Null
  /\ prevDeriv = Null
  /\ visited = 0
  /\ newtonX = 0
  /\ newtonI = 0
  /\ ret = NoRet
  /\ solution = NoSolution
  /\ equation = <<>>
  /\ variable = <<>>
  /\ lhs = <<>>
  /\ rhs = <<>>
  /\ fExpr = <<>>
  /\ integralVals = <<>>
  /\ acc = 0

NextDraw ==
  \/ \E value \in DomainInputs : setDomainMin(value)
  \/ \E value \in DomainInputs : setDomainMax(value)
  \/ \E cx \in Centres : panTo(cx)
  \/ \E dx \in {0, Unit} : dragTo(dx)

DrawSpec == InitDraw /\ [][NextDraw]_vars

\* The visible range in the coordinates of the entry e.
visibleMin(e, v) == toWorldX(v, 0) - e.dx
visibleMax(e, v) == toWorldX(v, v.w) - e.dx

\* C26: the interval draw passes to findExtrema and to findRoots lies within
\* the visible range (in the coordinates of the function) and has
\* xMin <= xMax, whatever the domain inputs hold.
C26_ScanIntervalWithinView ==
  op = "draw" =>
    /\ xMin <= xMax
    /\ visibleMin(fn, view) <= xMin
    /\ xMax <= visibleMax(fn, view)

\* The x of every extremum and root found for entry e over the visible range.
featuresOf(e, v) ==
  andThen(<<findExtrema(compileExpr(e.expr), searchMin(v, e), searchMax(v, e)),
            findRoots(compileExpr(e.expr), searchMin(v, e), searchMax(v, e))>>,
          LAMBDA found : {found[1][k].x : k \in 1..Len(found[1])}
                         \cup {found[2][k] : k \in 1..Len(found[2])})

\* The features nearest to the x given.
nearestOf(given, features) ==
  {p \in features : \A q \in features : Abs(p - given) <= Abs(q - given)}

\* Some feature is closer to the x given than 75 / scale.
withinSnap(given, features, scale) ==
  \E p \in features : Abs(p - given) * scale < snapUnits * Unit

\* The x used for the tangent is a nearest feature when the magnet is on and
\* a feature is within the threshold, and the x given otherwise.
SnapRule(magnet, given, used, features, scale) ==
  IF magnet /\ withinSnap(given, features, scale)
  THEN used \in nearestOf(given, features)
  ELSE used = given

\* SnapRule for the tangent computed with the mouse at m.
SnapRuleAt(m) ==
  andThen(tangentCurve(functions, view, m[1], m[2]),
          LAMBDA bestIndex :
            bestIndex >= 0 =>
              andThen(<<computeTangent(functions, view, magnetMode, m[1], m[2]),
                        featuresOf(functions[bestIndex + 1], view)>>,
                      LAMBDA got :
                        got[1] # NoTangent =>
                          SnapRule(magnetMode,
                                   toWorldX(view, m[1]) - functions[bestIndex + 1].dx,
                                   got[1].wx - functions[bestIndex + 1].dx,
                                   got[2], view.scale)))

\* C27: with the magnet on, the x of the tangent (in the coordinates of the
\* function) is the root or extremum of the visible range nearest to the
\* mouse exactly when that point is closer than 75 / scale; with the magnet
\* off, or with no such point that close, it is the x of the mouse.
C27_MagnetSnapsWithinThreshold == \A m \in Hover : SnapRuleAt(m)

\* The live tangent was moved by the magnet: it stands on a feature of its
\* curve that is not the x of the mouse position it was computed for.
C27_Witness ==
  /\ magnetMode
  /\ tangentInfo # NoTangent
  /\ \E m \in Hover :
       /\ tangentInfo = computeTangent(functions, view, magnetMode, m[1], m[2])
       /\ tangentInfo.wx # toWorldX(view, m[1])
       /\ tangentInfo.wx - functions[tangentInfo.fnIndex + 1].dx
            \in featuresOf(functions[tangentInfo.fnIndex + 1], view)

\* The live tangent is null or one record { fnIndex, wx, wy, slope }.
OneLiveTangent ==
  \/ tangentInfo = NoTangent
  \/ /\ DOMAIN tangentInfo = {"fnIndex", "wx", "wy", "slope"}
     /\ tangentInfo.fnIndex \in 0..(Len(functions) - 1)
     /\ tangentMode

\* The live tangent as an entry of the pinned list.
PinOf(t) == [wx |-> t.wx, wy |-> t.wy, slope |-> t.slope]

\* The pinned list without its entry at index k.
PinnedWithout(k) ==
  SubSeq(pinnedTangents, 1, k) \o SubSeq(pinnedTangents, k + 2, Len(pinnedTangents))

MouseIsDown == \E m \in Mouse : handleMouseDown(m[1], m[2])

\* A step that changes the pinned list is no mouse move, no mouse leave and
\* no switch of the tangent mode, and it is a pin, the removal of one entry
\* or the clearing of the list.
PinnedChange ==
  pinnedTangents' # pinnedTangents =>
    /\ ~(\E m \in Mouse, t \in Travels : handleMouseMove(m[1], m[2], t[1], t[2]))
    /\ ~handleMouseLeaveCanvas
    /\ ~(\E on \in BOOLEAN : setTangentMode(on))
    /\ \/ /\ MouseIsDown
          /\ tangentMode
          /\ tangentInfo # NoTangent
       \/ \E k \in 0..(Len(pinnedTangents) - 1) :
            pinnedTangents' = PinnedWithout(k)
       \/ pinnedTangents' = <<>>

\* A mouse-down in tangent mode with a live tangent appends that tangent
\* and leaves the selection and the drag as they are; any other mouse-down
\* leaves the pinned list as it is.
MouseDownPins ==
  MouseIsDown =>
    IF tangentMode /\ tangentInfo # NoTangent
    THEN /\ pinnedTangents' = Append(pinnedTangents, PinOf(tangentInfo))
         /\ UNCHANGED <<selectedIndex, dragRef, functions, view>>
    ELSE UNCHANGED pinnedTangents

CentralNumerator(f, x, h) == evaluate(f, x + h)[2] - evaluate(f, x - h)[2]

\* f(x + h) - f(x), the numerator of the forward difference.
ForwardNumerator(f, x, h) == evaluate(f, x + h)[2] - evaluate(f, x)[2]

BothSides(f, x, h) ==
  /\ evaluate(f, x + h)[1] = "num"
  /\ evaluate(f, x - h)[1] = "num"

\* h of the scan in progress.
ScanH == sampleDx(xMin, xMax) \div hFactor

\* A pass of findExtrema that stores an estimate stores the central
\* difference at its sample (kept as its numerator, with the sign of h).
ScanDerivIsCentral ==
  (/\ op = "findExtrema" /\ pc = "loop" /\ i <= samples /\ i' = i + 1
   /\ ScanH # 0 /\ prevDeriv' # Null)
    => /\ BothSides(compiled, sampleX(i), ScanH)
       /\ prevDeriv' = Num(CentralNumerator(compiled, sampleX(i), ScanH) * Sign(ScanH))

\* A pass of refine on the bracket before the sample in hand chooses its
\* half by the signs of the central differences at a and at the midpoint.
RefineIsCentral ==
  (op = "findExtrema" /\ pc = "loop" /\ i \in 1..samples /\ ScanH # 0) =>
    LET a == sampleX(i - 1)
        b == sampleX(i)
        n == refineStep(compiled, a, b, ScanH)
    IN  n # Null =>
          /\ BothSides(compiled, a, ScanH)
          /\ BothSides(compiled, Mid(a, b), ScanH)
          /\ n = IF \/ /\ CentralNumerator(compiled, a, ScanH) * Sign(ScanH) > 0
                       /\ CentralNumerator(compiled, Mid(a, b), ScanH) * Sign(ScanH) < 0
                    \/ /\ CentralNumerator(compiled, a, ScanH) * Sign(ScanH) < 0
                       /\ CentralNumerator(compiled, Mid(a, b), ScanH) * Sign(ScanH) > 0
                 THEN <<"next", a, Mid(a, b)>>
                 ELSE <<"next", Mid(a, b), b>>

\* The slope of the tangent of x^2 - 4 at the iterate in hand is the central
\* difference with hh.
TangentIsCentral ==
  LET t == tangentAt(0, newEntry(Parabola), newtonX)
  IN  t # NoTangent =>
        t.slope = RoundDiv(CentralNumerator(compileExpr(Parabola), newtonX, hh) * Unit,
                           2 * hh)

\* A pass of newtonMethod that goes on to a next iterate.
NewtonContinues == NewtonPass /\ pc' = "newton" /\ newtonI' = newtonI + 1

\* The next iterate is x - f(x) / dfx with the forward difference
\* dfx = (f(x + h) - f(x)) / h, h = 1e-8.
NewtonIsForward ==
  NewtonContinues =>
    /\ ForwardNumerator(compiled, newtonX, newtonH) # 0
    /\ newtonX' = newtonX - RoundDiv(evaluate(compiled, newtonX)[2] * newtonH,
                                     ForwardNumerator(compiled, newtonX, newtonH))

\* The next iterate is x - f(x) / dfx with the central difference
\* dfx = (f(x + h) - f(x - h)) / (2h), h = 1e-8.
NewtonIsCentral ==
  NewtonContinues =>
    /\ BothSides(compiled, newtonX, newtonH)
    /\ CentralNumerator(compiled, newtonX, newtonH) # 0
    /\ newtonX' = newtonX - RoundDiv(evaluate(compiled, newtonX)[2] * 2 * newtonH,
                                     CentralNumerator(compiled, newtonX, newtonH))

=============================================================================
